---------------------------- MODULE Spec2Model ----------------------------
(***************************************************************************)
(* A model of lifec_shell: the CharDevice buffer (src/src/char_device.rs), *)
(* the Shell's device registry and byte queue (src/src/lib.rs) and the     *)
(* runmd tokenizer with the Theme renderer (src/src/runmd.rs,              *)
(* src/src/runmd/v1_lexer.rs, src/src/theme.rs).                           *)
(*                                                                         *)
(* Five specifications share the module:                                   *)
(*   SpecDevice  one CharDevice driven through its public methods          *)
(*   Spec        the Shell extension: registry, queue, connection          *)
(*   SpecLive    the Shell under a host that keeps calling on_run          *)
(*   SpecTheme   Theme::parse / Theme::render over bounded sources         *)
(*   SpecColors  the color map of a Theme built from a state graph         *)
(*                                                                         *)
(* Rust's usize arithmetic panics on overflow when overflow checks are on  *)
(* (debug profile) and wraps when they are off (release profile); the      *)
(* variable overflow_checks fixes the profile of a run.  A panic ends the  *)
(* run: panicked becomes TRUE and no further step is taken.                *)
(***************************************************************************)
EXTENDS Integers, Sequences, FiniteSets, TLC

\* ------------------------------------------------------------------ bounds

\* Longest buffer a standalone device is driven to.
MaxLen == 3

\* The line counter is explored up to MaxCount above 0 and MaxCount below
\* the wrap point.
MaxCount == 3

\* Width of usize in bits.  TLC's integers are 32-bit, so the model takes
\* the narrowest usize Rust has (16-bit targets); every counter of a bounded
\* run stays within MaxCount + MaxLen of 0 or of the wrap point, where the
\* arithmetic is the same for every width.
UsizeBits == 16

UsizeMod == 2 ^ UsizeBits

UsizeMax == UsizeMod - 1

\* ------------------------------------------------------------------ bytes

\* '\r', the line separator, and '\n'
CR == 13

LF == 10

\* 0x7F, the byte of the Backspace key
DEL == 127

\* The bytes fed to a device: 'a' (97), 'b' (98), carriage return, line
\* feed, delete and a control byte (1) no branch of write handles.  All are
\* single-byte key codes, so the decoder holds no pending escape sequence
\* between writes.
Bytes == {97, 98, CR, LF, DEL, 1}

\* Decoder::write followed by the case analysis of its key code: the key
\* codes the decoder yields for one byte, each with KeyCode::printable().
\* Enter is 0x0D and prints '\r'; LineFeed is 0x0A and prints '\n';
\* Backspace is 0x7F; the other control bytes print nothing.
DecoderWrite(next) ==
    IF next = CR THEN << [code |-> "Enter", printable |-> <<CR>>] >>
    ELSE IF next = LF THEN << [code |-> "LineFeed", printable |-> <<LF>>] >>
    ELSE IF next = DEL THEN << [code |-> "Backspace", printable |-> <<>>] >>
    ELSE IF next < 32 THEN << [code |-> "Ctrl", printable |-> <<>>] >>
    ELSE << [code |-> "Char", printable |-> <<next>>] >>

\* ------------------------------------------------------- usize arithmetic

\* a + b on usize: the value and whether it overflowed.
UAdd(a, b) == [v |-> (a + b) % UsizeMod, ovf |-> a + b > UsizeMax]

\* a - b on usize: the value and whether it underflowed.
USub(a, b) == [v |-> (a - b + UsizeMod) % UsizeMod, ovf |-> a < b]

\* ------------------------------------------------------------ CharDevice

RECURSIVE SumSeq(_)
SumSeq(s) == IF s = <<>> THEN 0 ELSE Head(s) + SumSeq(Tail(s))

\* The first n elements of s (Iterator::take).
TakeN(s, n) == SubSeq(s, 1, IF n < Len(s) THEN n ELSE Len(s))

\* A split that counts each separator into the segment it ends.
RECURSIVE split_keeps_separator(_, _)
split_keeps_separator(buf, cur) ==
    IF buf = <<>> THEN <<cur>>
    ELSE IF Head(buf) = CR THEN <<cur + 1>> \o split_keeps_separator(Tail(buf), 0)
    ELSE split_keeps_separator(Tail(buf), cur + 1)

\* str::split('\r').map(|l| l.len()): the lengths of the segments between
\* separators; an empty string has one empty segment.
RECURSIVE SplitLens(_, _)
SplitLens(buf, cur) ==
    IF buf = <<>> THEN <<cur>>
    ELSE IF Head(buf) = CR THEN <<cur>> \o SplitLens(Tail(buf), 0)
    ELSE SplitLens(Tail(buf), cur + 1)

\* CharDevice::default()
NewDevice == [buffer |-> <<>>, line_info |-> <<>>, cursor |-> 0, line |-> 0]

\* The outcome of a method: the device afterwards, whether the call
\* panicked, and the value it returned (take's string).
Ok(d) == [dev |-> d, panic |-> FALSE, out |-> <<>>]
Panic(d) == [dev |-> d, panic |-> TRUE, out |-> <<>>]

\* CharDevice::lines
lines(d) == Len(d.line_info)

\* goto_line that leaves out the length of the target line.
goto_line_start(d, line_no, chk) ==
    LET chars == SumSeq(TakeN(d.line_info, line_no))
        c == UAdd(chars, line_no)
    IN  IF chk /\ c.ovf THEN Panic(d)
        ELSE Ok([d EXCEPT !.cursor = c.v])

\* CharDevice::goto_line, after line was set to line_no
goto_line(d, line_no, chk) ==
    LET n1 == UAdd(line_no, 1)
        chars == SumSeq(TakeN(d.line_info, n1.v))
        c == UAdd(chars, line_no)
    IN  IF chk /\ (n1.ovf \/ c.ovf) THEN Panic(d)
        ELSE Ok([d EXCEPT !.cursor = c.v])

\* CharDevice::cursor_up
cursor_up(d, chk) ==
    IF d.line > 0
    THEN goto_line([d EXCEPT !.line = d.line - 1], d.line - 1, chk)
    ELSE Ok(d)

\* CharDevice::cursor_down
cursor_down(d, chk) ==
    LET last_line == USub(Len(d.line_info), 1)
    IN  IF chk /\ last_line.ovf THEN Panic(d)
        ELSE IF d.line < last_line.v
        THEN goto_line([d EXCEPT !.line = d.line + 1], d.line + 1, chk)
        ELSE Ok(d)

\* buffer.as_bytes().get(i) == Some(b'\r'), i counted from 0
IsSeparatorAt(buf, i) == i < Len(buf) /\ buf[i + 1] = CR

\* A cursor_left that drops the last character of the buffer as it moves.
cursor_left_trims(d, chk) ==
    IF d.cursor > 1 /\ d.buffer # <<>>
    THEN Ok([d EXCEPT !.cursor = d.cursor - 1,
                      !.buffer = SubSeq(d.buffer, 1, Len(d.buffer) - 1)])
    ELSE Ok(d)

\* CharDevice::cursor_left
cursor_left(d, chk) ==
    IF d.cursor > 1 /\ d.buffer # <<>>
    THEN LET moved == [d EXCEPT !.cursor = d.cursor - 1]
             check == moved.cursor + 1
             l == USub(d.line, 1)
         IN  IF IsSeparatorAt(d.buffer, check)
             THEN IF chk /\ l.ovf THEN Panic(moved)
                  ELSE Ok([moved EXCEPT !.line = l.v])
             ELSE Ok(moved)
    ELSE Ok(d)

\* CharDevice::cursor_right
cursor_right(d, chk) ==
    IF d.cursor < Len(d.buffer)
    THEN LET moved == [d EXCEPT !.cursor = d.cursor + 1]
             check == moved.cursor - 1
             l == UAdd(d.line, 1)
         IN  IF IsSeparatorAt(d.buffer, check)
             THEN IF chk /\ l.ovf THEN Panic(moved)
                  ELSE Ok([moved EXCEPT !.line = l.v])
             ELSE Ok(moved)
    ELSE Ok(d)

\* String::insert(idx, ch), idx counted from 0; the caller checks idx <= len
InsertAt(buf, idx, ch) ==
    SubSeq(buf, 1, idx) \o <<ch>> \o SubSeq(buf, idx + 1, Len(buf))

\* String::remove(idx), idx counted from 0; the caller checks idx < len
RemoveAt(buf, idx) ==
    SubSeq(buf, 1, idx) \o SubSeq(buf, idx + 2, Len(buf))

\* insert_printable without the cursor advance.
insert_printable_no_advance(d, ch) ==
    IF d.cursor > Len(d.buffer) THEN Panic(d)
    ELSE Ok([d EXCEPT !.buffer = InsertAt(d.buffer, d.cursor, ch)])

\* write's printable branch: buffer.insert(cursor, printable); cursor += 1.
\* String::insert panics when the index is past the end.
insert_printable(d, ch) ==
    IF d.cursor > Len(d.buffer) THEN Panic(d)
    ELSE Ok([d EXCEPT !.buffer = InsertAt(d.buffer, d.cursor, ch),
                      !.cursor = d.cursor + 1])

\* A Backspace branch that leaves the line counter alone.
backspace_keeps_line(d) ==
    IF d.cursor > 0 /\ d.buffer # <<>>
    THEN IF d.cursor - 1 >= Len(d.buffer)
         THEN Panic([d EXCEPT !.cursor = d.cursor - 1])
         ELSE Ok([d EXCEPT !.cursor = d.cursor - 1,
                           !.buffer = RemoveAt(d.buffer, d.cursor - 1)])
    ELSE Ok(d)

\* write's Backspace branch.  String::remove panics when the index is not
\* inside the string.
backspace(d) ==
    IF d.cursor > 0 /\ d.buffer # <<>>
    THEN LET at == d.cursor - 1
             moved == [d EXCEPT !.cursor = at]
         IN  IF at >= Len(d.buffer) THEN Panic(moved)
             ELSE LET removed == d.buffer[at + 1]
                      cut == [moved EXCEPT !.buffer = RemoveAt(d.buffer, at)]
                  IN  IF removed \in {CR, LF} /\ d.line > 0
                      THEN Ok([cut EXCEPT !.line = d.line - 1])
                      ELSE Ok(cut)
    ELSE Ok(d)

\* The loop body without the line increment of the Enter key.
write_keycode_enter_keeps_line(d, key, chk) ==
    IF key.printable # <<>> THEN insert_printable(d, key.printable[1])
    ELSE IF key.code = "Backspace" THEN backspace(d)
    ELSE Ok(d)

\* The body of write's loop for one key code.
write_keycode(d, key, chk) ==
    LET edited ==
            IF key.printable # <<>> THEN insert_printable(d, key.printable[1])
            ELSE IF key.code = "Backspace" THEN backspace(d)
            ELSE Ok(d)
        l == UAdd(edited.dev.line, 1)
    IN  IF edited.panic THEN edited
        ELSE IF key.code = "Enter"
        THEN IF chk /\ l.ovf THEN Panic(edited.dev)
             ELSE Ok([edited.dev EXCEPT !.line = l.v])
        ELSE edited

RECURSIVE write_keycodes(_, _, _)
write_keycodes(d, keys, chk) ==
    IF keys = <<>> THEN Ok(d)
    ELSE LET r == write_keycode(d, Head(keys), chk)
         IN  IF r.panic THEN r ELSE write_keycodes(r.dev, Tail(keys), chk)

\* CharDevice::write
write(d, next, chk) ==
    LET r == write_keycodes(d, DecoderWrite(next), chk)
    IN  IF r.panic THEN r
        ELSE Ok([r.dev EXCEPT !.line_info = SplitLens(r.dev.buffer, 0)])

\* take that leaves the line counter as it was.
take_keeps_line(d) ==
    [dev |-> [NewDevice EXCEPT !.line = d.line], panic |-> FALSE, out |-> d.buffer]

\* CharDevice::take
take(d) == [dev |-> NewDevice, panic |-> FALSE, out |-> d.buffer]

\* str::split('\r'): the segments between separators, cur being the segment
\* read so far.
RECURSIVE SplitSegments(_, _)
SplitSegments(buf, cur) ==
    IF buf = <<>> THEN <<cur>>
    ELSE IF Head(buf) = CR THEN <<cur>> \o SplitSegments(Tail(buf), <<>>)
    ELSE SplitSegments(Tail(buf), Append(cur, Head(buf)))

\* CharDevice::get_line: an Option, the empty sequence being None
get_line(d, line_no) ==
    LET segments == SplitSegments(d.buffer, <<>>)
    IN  IF line_no < Len(segments) THEN <<segments[line_no + 1]>> ELSE <<>>

\* CharDevice::get_current_line
get_current_line(d) == get_line(d, d.line)

\* CharDevice::cursor_tail
cursor_tail(d) == IF d.cursor > 1 THEN d.cursor - 1 ELSE 0

\* CharDevice::output
output(d) == d.buffer

\* CharDevice::before_cursor; the slice panics past the end of the buffer
before_cursor(d) ==
    IF d.buffer # <<>>
    THEN IF d.cursor > Len(d.buffer) THEN [panic |-> TRUE, text |-> <<>>]
         ELSE [panic |-> FALSE, text |-> SubSeq(d.buffer, 1, d.cursor)]
    ELSE [panic |-> FALSE, text |-> <<>>]

\* CharDevice::after_cursor; the slice panics past the end of the buffer
after_cursor(d) ==
    IF d.buffer # <<>>
    THEN IF cursor_tail(d) > Len(d.buffer) THEN [panic |-> TRUE, text |-> <<>>]
         ELSE [panic |-> FALSE,
               text |-> SubSeq(d.buffer, cursor_tail(d) + 1, Len(d.buffer))]
    ELSE [panic |-> FALSE, text |-> <<>>]

\* Option::None and Option::Some(x)
None == <<>>
Some(x) == <<x>>

\* ------------------------------------------------------------ tokenizer
\* Text is a sequence of one-character strings; an offset counts the
\* characters before it, as a byte offset does in an ASCII string.

Lower == {"a", "b", "c", "d", "e", "f", "g", "h", "i", "j", "k", "l", "m", "n", "o", "p", "q", "r", "s", "t", "u", "v", "w", "x", "y", "z"}

Upper == {"A", "B", "C", "D", "E", "F", "G", "H", "I", "J", "K", "L", "M", "N", "O", "P", "Q", "R", "S", "T", "U", "V", "W", "X", "Y", "Z"}

Digits == {"0", "1", "2", "3", "4", "5", "6", "7", "8", "9"}

\* The character U+0060, which a string of TLA+ cannot hold
Grave == "grave"

\* [ \t\n\f], the characters the three lexers skip
SkipChars == {" ", "\t", "\n", "\f"}

\* |c| c == '\r' || c == '\n'
EolChars == {"\r", "\n"}

\* char::is_whitespace, for str::trim
TrimChars == {" ", "\t", "\n", "\f", "\r"}

\* The tail class of Symbol, [A-Za-z-._:0-9]
SymbolTail == Lower \cup Upper \cup Digits \cup {"-", ".", "_", ":"}

\* The tail class of Name, [A-Za-z_.-/0-9], where .-/ is the range '.' to '/'
NameTail == Lower \cup Upper \cup Digits \cup {"_", ".", "/"}

\* &s[from..], offsets counted from 0
From(s, from) == SubSeq(s, from + 1, Len(s))

\* &s[from..to]
Slice(s, from, to) == SubSeq(s, from + 1, to)

\* s[pos..].starts_with(lit)
StartsWith(s, pos, lit) ==
    pos + Len(lit) <= Len(s) /\ SubSeq(s, pos + 1, pos + Len(lit)) = lit

\* The number of characters of class from offset pos on.
RECURSIVE RunLength(_, _, _)
RunLength(s, pos, class) ==
    IF pos < Len(s) /\ s[pos + 1] \in class
    THEN 1 + RunLength(s, pos + 1, class) ELSE 0

\* str::find(|c| c == '\r' || c == '\n'): the offset of the first line end,
\* or -1
RECURSIVE FindEol(_, _)
FindEol(s, pos) ==
    IF pos >= Len(s) THEN -1
    ELSE IF s[pos + 1] \in EolChars THEN pos
    ELSE FindEol(s, pos + 1)

\* str::trim
RECURSIVE TrimStart(_)
TrimStart(s) ==
    IF s # <<>> /\ Head(s) \in TrimChars THEN TrimStart(Tail(s)) ELSE s

RECURSIVE TrimEnd(_)
TrimEnd(s) ==
    IF s # <<>> /\ s[Len(s)] \in TrimChars
    THEN TrimEnd(SubSeq(s, 1, Len(s) - 1)) ELSE s

Trim(s) == TrimEnd(TrimStart(s))

\* str::split(","): the pieces between commas
RECURSIVE SplitComma(_, _)
SplitComma(s, piece) ==
    IF s = <<>> THEN <<piece>>
    ELSE IF Head(s) = "," THEN <<piece>> \o SplitComma(Tail(s), <<>>)
    ELSE SplitComma(Tail(s), Append(piece, Head(s)))

DigitValue(c) ==
    CASE c = "0" -> 0 [] c = "1" -> 1 [] c = "2" -> 2 [] c = "3" -> 3
      [] c = "4" -> 4 [] c = "5" -> 5 [] c = "6" -> 6 [] c = "7" -> 7
      [] c = "8" -> 8 [] c = "9" -> 9

RECURSIVE DigitsValue(_, _)
DigitsValue(s, acc) ==
    IF s = <<>> THEN acc ELSE DigitsValue(Tail(s), 10 * acc + DigitValue(Head(s)))

\* str::parse::<i32>: an optional sign and at least one digit, at most nine
\* digits here (a longer literal is not among the sources); None otherwise
ParseI32(s) ==
    LET signed == s # <<>> /\ Head(s) \in {"+", "-"}
        digits == IF signed THEN Tail(s) ELSE s
    IN  IF digits # <<>> /\ Len(digits) <= 9 /\ RunLength(digits, 0, Digits) = Len(digits)
        THEN Some(IF signed /\ Head(s) = "-"
                  THEN 0 - DigitsValue(digits, 0) ELSE DigitsValue(digits, 0))
        ELSE None

\* from_comma_sep::<i32>: the items of the trimmed remainder that parse
RECURSIVE ParsedItems(_)
ParsedItems(pieces) ==
    IF pieces = <<>> THEN <<>>
    ELSE ParseI32(Trim(Head(pieces))) \o ParsedItems(Tail(pieces))

from_comma_sep(remainder) == ParsedItems(SplitComma(Trim(remainder), <<>>))

\* lifec::Value, as far as the lexer builds it
Value(type, text, ints) == [type |-> type, text |-> text, ints |-> ints]

\* The callbacks of the type tags (graph_lexer::from_text, from_symbol,
\* from_bool, from_int, from_int_pair, from_int_range and the two constant
\* closures), each on the remainder of the line: Some(value) or None.
TagCallback(parse, remainder) ==
    LET t == Trim(remainder)
        n == ParseI32(t)
        items == from_comma_sep(remainder)
    IN  CASE parse = "text" -> Some(Value("TextBuffer", t, <<>>))
          [] parse = "symbol" -> Some(Value("Symbol", t, <<>>))
          [] parse = "true" -> Some(Value("Bool", <<>>, <<1>>))
          [] parse = "false" -> Some(Value("Bool", <<>>, <<0>>))
          [] parse = "bool" ->
                IF t = <<"t", "r", "u", "e">> THEN Some(Value("Bool", <<>>, <<1>>))
                ELSE IF t = <<"f", "a", "l", "s", "e">> THEN Some(Value("Bool", <<>>, <<0>>))
                ELSE None
          [] parse = "int" ->
                IF n # None THEN Some(Value("Int", <<>>, n)) ELSE None
          [] parse = "int_pair" ->
                IF Len(items) >= 2
                THEN Some(Value("IntPair", <<>>, SubSeq(items, 1, 2))) ELSE None
          [] parse = "int_range" ->
                IF Len(items) >= 3
                THEN Some(Value("IntRange", <<>>, SubSeq(items, 1, 3))) ELSE None
          [] parse = "empty" -> None

\* The type tags of AttributeGraphElements with the variant each builds and
\* its callback.  The float and binary-vector tags are left out: no source
\* of the model spells them.
TypeTags == {
    [lit |-> <<".", "t", "e", "x", "t">>, kind |-> "Text", parse |-> "text"],
    [lit |-> <<".", "T", "E", "X", "T">>, kind |-> "Text", parse |-> "text"],
    [lit |-> <<".", "e", "n", "a", "b", "l", "e">>, kind |-> "Bool", parse |-> "true"],
    [lit |-> <<".", "d", "i", "s", "a", "b", "l", "e">>, kind |-> "Bool", parse |-> "false"],
    [lit |-> <<".", "b", "o", "o", "l">>, kind |-> "Bool", parse |-> "bool"],
    [lit |-> <<".", "B", "O", "O", "L">>, kind |-> "Bool", parse |-> "bool"],
    [lit |-> <<".", "i", "n", "t">>, kind |-> "Int", parse |-> "int"],
    [lit |-> <<".", "I", "N", "T">>, kind |-> "Int", parse |-> "int"],
    [lit |-> <<".", "i", "n", "t", "2">>, kind |-> "IntPair", parse |-> "int_pair"],
    [lit |-> <<".", "I", "N", "T", "_", "P", "A", "I", "R">>, kind |-> "IntPair", parse |-> "int_pair"],
    [lit |-> <<".", "i", "n", "t", "3">>, kind |-> "IntRange", parse |-> "int_range"],
    [lit |-> <<".", "i", "n", "t", "_", "r", "a", "n", "g", "e">>, kind |-> "IntRange", parse |-> "int_range"],
    [lit |-> <<".", "I", "N", "T", "_", "R", "A", "N", "G", "E">>, kind |-> "IntRange", parse |-> "int_range"],
    [lit |-> <<".", "s", "y", "m", "b", "o", "l">>, kind |-> "SymbolValue", parse |-> "symbol"],
    [lit |-> <<".", "e", "m", "p", "t", "y">>, kind |-> "Empty", parse |-> "empty"],
    [lit |-> <<".", "E", "M", "P", "T", "Y">>, kind |-> "Empty", parse |-> "empty"]}

\* The literals of a table that match at pos, and the longest of them (the
\* lexers take the longest match).
MatchingAt(table, s, pos) == {t \in table : StartsWith(s, pos, t.lit)}

Longest(matches) ==
    CHOOSE t \in matches : \A u \in matches : Len(u.lit) <= Len(t.lit)

\* One token of AttributeGraphElements: its variant, its span in the text
\* lexed and the value it carries (None when it carries none).
Element(kind, start, end, value) ==
    [kind |-> kind, start |-> start, end |-> end, value |-> value]

\* The token a type tag builds once its callback has returned v: Empty has
\* no callback, and a callback that returns None turns its token into Error.
TagElement(kind, start, end, v) ==
    IF kind = "Empty" THEN Element("Empty", start, end, None)
    ELSE IF v = None THEN Element("Error", start, end, None)
    ELSE Element(kind, start, end, v)

\* The token of the type tag t matched at pos
TagAt(s, pos, t) ==
    TagElement(t.kind, pos, pos + Len(t.lit),
               TagCallback(t.parse, From(s, pos + Len(t.lit))))

\* from_string for a Symbol whose span is start..end
SymbolElement(s, start, end) ==
    Element("Symbol", start, end, Some(Value("String", Slice(s, start, end), <<>>)))

\* The token AttributeGraphElements finds at pos, which is not a skipped
\* character.
ElementAt(s, pos) ==
    IF s[pos + 1] = "."
    THEN IF MatchingAt(TypeTags, s, pos) = {} THEN Element("Error", pos, pos + 1, None)
         ELSE TagAt(s, pos, Longest(MatchingAt(TypeTags, s, pos)))
    ELSE IF s[pos + 1] \in Digits
    THEN Element("Entity", pos, pos + RunLength(s, pos, Digits), None)
    ELSE IF s[pos + 1] \in Lower \cup Upper
    THEN SymbolElement(s, pos, pos + RunLength(s, pos, SymbolTail))
    ELSE IF s[pos + 1] = "#"
    THEN Element("Name", pos, pos + 1 + RunLength(s, pos + 1, NameTail), None)
    ELSE Element("Error", pos, pos + 1, None)

\* AttributeGraphElements::lexer(s).spanned(): the tokens of s from pos on;
\* after the token e the lexer goes on at e.end
RECURSIVE Elements(_, _)
RECURSIVE ElementsAfter(_, _)
Elements(s, pos) ==
    IF pos >= Len(s) THEN <<>>
    ELSE IF s[pos + 1] \in SkipChars
    THEN Elements(s, pos + RunLength(s, pos, SkipChars))
    ELSE ElementsAfter(s, ElementAt(s, pos))

ElementsAfter(s, e) == <<e>> \o Elements(s, e.end)

\* get_value: the value of a typed element, Value::Empty for Empty, None
\* for every other element
get_value(element) ==
    IF element.kind \in {"Text", "Bool", "Int", "IntPair", "IntRange", "SymbolValue"}
    THEN element.value
    ELSE IF element.kind = "Empty" THEN Some(Value("Empty", <<>>, <<>>))
    ELSE None

\* logos::Span
Span(start, end) == [start |-> start, end |-> end]

\* What a callback of Runmd leaves behind: how far it bumped the lexer, the
\* payload it returned (None turns the token into Error) and the events it
\* traced.
CallbackResult(bump, payload, log) == [bump |-> bump, payload |-> payload, log |-> log]

\* An on_comment that takes the rest of the source when the line is not
\* terminated.
on_comment_to_end(source, start, end) ==
    LET eol == FindEol(From(source, end), 0)
    IN  IF eol >= 0 THEN CallbackResult(eol, Some(<<>>), <<>>)
        ELSE CallbackResult(Len(source) - end, Some(<<>>), <<>>)

\* on_comment, for a token whose span ends at offset end
on_comment(source, start, end) ==
    LET eol == FindEol(From(source, end), 0)
    IN  IF eol >= 0 THEN CallbackResult(eol, Some(<<>>), <<>>)
        ELSE CallbackResult(0, None, <<>>)

\* AttributeGraphEvents::lexer(slice).next() for the four slices that reach
\* on_block_event: ":" and "+" are no tokens of AttributeGraphEvents
graph_event(slice) ==
    IF slice = <<"a", "d", "d">> THEN "Add"
    ELSE IF slice = <<"d", "e", "f", "i", "n", "e">> THEN "Define"
    ELSE "Error"

\* The add branch of on_block_event: the name and the value are the first
\* two elements of the line.  It traces the event it read and writes
\* nothing.
add_event(event_span, elements) ==
    IF Len(elements) >= 2 /\ elements[1].kind = "Symbol"
    THEN IF get_value(elements[2]) # None
         THEN CallbackResult(elements[2].start,
                  Some(<<event_span,
                         Span(event_span.end, event_span.end + elements[2].start)>>),
                  <<[event |-> "Add", name |-> elements[1].value[1].text,
                     value |-> get_value(elements[2])[1]]>>)
         ELSE CallbackResult(elements[2].start, Some(<<event_span>>), <<>>)
    ELSE CallbackResult(0, Some(<<event_span>>), <<>>)

\* The define branch of on_block_event: the name, the symbol and a value
\* are the first three elements of the line.
define_event(event_span, elements) ==
    IF /\ Len(elements) >= 3
       /\ elements[1].kind = "Symbol"
       /\ elements[2].kind = "Symbol"
    THEN CallbackResult(elements[2].end,
             Some(<<event_span,
                    Span(elements[1].start + event_span.end,
                         elements[1].end + event_span.end + 1),
                    Span(elements[2].start + event_span.end,
                         elements[2].end + event_span.end + 1)>>),
             <<>>)
    ELSE CallbackResult(0, Some(<<event_span>>), <<>>)

\* The match on the event in on_block_event
block_event(event, event_span, elements) ==
    IF event = "Add" THEN add_event(event_span, elements)
    ELSE IF event = "Define" THEN define_event(event_span, elements)
    ELSE CallbackResult(0, Some(<<event_span>>), <<>>)

\* on_block_event, for an event keyword with the span start..end
on_block_event(source, start, end) ==
    IF FindEol(From(source, end), 0) < 0 THEN CallbackResult(0, None, <<>>)
    ELSE block_event(graph_event(Slice(source, start, end)), Span(start, end),
                     Elements(Slice(source, end, end + FindEol(From(source, end), 0)), 0))

\* The match on the first element of the value in on_attribute_value
attribute_value(start, end, eol, value_type_span) ==
    IF value_type_span.kind \in
           {"Text", "Bool", "Int", "IntPair", "IntRange", "SymbolValue"}
    THEN CallbackResult(eol,
             Some(<<Span(start, end + value_type_span.end),
                    Span(end + value_type_span.end, end + eol)>>),
             <<>>)
    ELSE CallbackResult(eol, None, <<>>)

\* The value on_attribute_value lexes: the "." and the line after it
attribute_line(source, start, end, eol) ==
    attribute_value(start, end, eol, Elements(Slice(source, start, end + eol), 0)[1])

\* on_attribute_value, for the "." with the span start..end
on_attribute_value(source, start, end) ==
    IF FindEol(From(source, end), 0) < 0 THEN CallbackResult(0, None, <<>>)
    ELSE attribute_line(source, start, end, FindEol(From(source, end), 0))

\* A match that looks at the first element of the line only.
block_delimitter_first_element(delimitter_span, eol, elements) ==
    IF Len(elements) >= 1 /\ elements[1].kind = "Symbol"
    THEN CallbackResult(eol,
             Some(<<delimitter_span,
                    Span(delimitter_span.end + elements[1].start,
                         delimitter_span.end + elements[1].end)>>),
             <<>>)
    ELSE CallbackResult(eol, Some(<<delimitter_span>>), <<>>)

\* The match on the first two elements of the line in on_block_delimitter
block_delimitter(delimitter_span, eol, elements) ==
    IF /\ Len(elements) >= 2
       /\ elements[1].kind = "Symbol"
       /\ elements[2].kind = "Symbol"
    THEN CallbackResult(eol,
             Some(<<delimitter_span,
                    Span(delimitter_span.end + elements[1].start,
                         delimitter_span.end + elements[1].end),
                    Span(delimitter_span.end + elements[2].start,
                         delimitter_span.end + elements[2].end)>>),
             <<>>)
    ELSE IF Len(elements) = 1 /\ elements[1].kind = "Symbol"
    THEN CallbackResult(eol,
             Some(<<delimitter_span,
                    Span(delimitter_span.end + elements[1].start,
                         delimitter_span.end + elements[1].end)>>),
             <<>>)
    ELSE CallbackResult(eol, Some(<<delimitter_span>>), <<>>)

\* The line on_block_delimitter lexes and bumps over
delimitter_line(source, start, end, eol) ==
    block_delimitter(Span(start, end), eol,
                     Elements(Slice(source, end, end + eol), 0))

\* on_block_delimitter, for the three-grave delimiter with the span start..end
on_block_delimitter(source, start, end) ==
    IF FindEol(From(source, end), 0) < 0
    THEN CallbackResult(0, Some(<<Span(start, end)>>), <<>>)
    ELSE delimitter_line(source, start, end, FindEol(From(source, end), 0))

\* The literals of Runmd with the variant each builds and its callback
RunmdLiterals == {
    [lit |-> <<Grave, Grave, Grave>>, kind |-> "BlockDelimitter", callback |-> "on_block_delimitter"],
    [lit |-> <<"a", "d", "d">>, kind |-> "BlockKeyword", callback |-> "on_block_event"],
    [lit |-> <<"d", "e", "f", "i", "n", "e">>, kind |-> "BlockKeyword", callback |-> "on_block_event"],
    [lit |-> <<":">>, kind |-> "BlockKeyword", callback |-> "on_block_event"],
    [lit |-> <<"+">>, kind |-> "BlockKeyword", callback |-> "on_block_event"],
    [lit |-> <<".">>, kind |-> "AttributeValue", callback |-> "on_attribute_value"],
    [lit |-> <<Grave, Grave, Grave, " ", "m", "d">>, kind |-> "Comment", callback |-> "on_comment"],
    [lit |-> <<Grave, Grave, Grave, " ", "r", "u", "n", "m", "d">>, kind |-> "Comment", callback |-> "on_comment"],
    [lit |-> <<"-">>, kind |-> "Comment", callback |-> "on_comment"],
    [lit |-> <<"#">>, kind |-> "Comment", callback |-> "on_comment"]}

RunmdCallback(callback, source, start, end) ==
    CASE callback = "on_block_delimitter" -> on_block_delimitter(source, start, end)
      [] callback = "on_block_event" -> on_block_event(source, start, end)
      [] callback = "on_attribute_value" -> on_attribute_value(source, start, end)
      [] callback = "on_comment" -> on_comment(source, start, end)

\* One token of Runmd: its variant, lexer.span() once its callback has
\* returned, the spans it carries and the events its callback traced.
RunmdToken(kind, start, end, spans, log) ==
    [kind |-> kind, start |-> start, end |-> end, spans |-> spans, log |-> log]

\* The token a literal builds once its callback has returned r: None turns
\* it into Error, and what the callback bumped is part of its span.
CallbackToken(kind, start, end, r) ==
    IF r.payload = None
    THEN RunmdToken("Error", start, end + r.bump, <<>>, r.log)
    ELSE RunmdToken(kind, start, end + r.bump, r.payload[1], r.log)

\* The token of the literal t matched at pos
LiteralAt(source, pos, t) ==
    CallbackToken(t.kind, pos, pos + Len(t.lit),
                  RunmdCallback(t.callback, source, pos, pos + Len(t.lit)))

\* The token Runmd finds at pos, which is not a skipped character: the
\* longest literal and its callback, or Error for one character.  (No source
\* of SpecTheme holds a proper prefix of a literal where a token starts, so
\* an Error token never spans more than the one character.)
RunmdAt(source, pos) ==
    IF MatchingAt(RunmdLiterals, source, pos) = {}
    THEN RunmdToken("Error", pos, pos + 1, <<>>, <<>>)
    ELSE LiteralAt(source, pos, Longest(MatchingAt(RunmdLiterals, source, pos)))

\* Runmd::lexer(source): the tokens of source from pos on; after the token t
\* the lexer goes on at t.end
RECURSIVE Runmd(_, _)
RECURSIVE RunmdAfter(_, _)
Runmd(source, pos) ==
    IF pos >= Len(source) THEN <<>>
    ELSE IF source[pos + 1] \in SkipChars
    THEN Runmd(source, pos + RunLength(source, pos, SkipChars))
    ELSE RunmdAfter(source, RunmdAt(source, pos))

RunmdAfter(source, t) == <<t>> \o Runmd(source, t.end)

\* theme::ThemeToken, (Token, Option<Range<usize>>)
ThemeToken(token, span) == [token |-> token, span |-> span]

\* impl Into<Vec<ThemeToken>> for Runmd
into_theme_tokens(t) ==
    LET n == Len(t.spans)
    IN  CASE t.kind = "BlockDelimitter" ->
                (IF n >= 1 THEN <<ThemeToken("Bracket", Some(t.spans[1]))>> ELSE <<>>)
                \o (IF n = 3
                    THEN <<ThemeToken("Identifier", Some(t.spans[2])),
                           ThemeToken("Keyword", Some(t.spans[3]))>>
                    ELSE IF n = 2 THEN <<ThemeToken("Keyword", Some(t.spans[2]))>>
                    ELSE <<>>)
          [] t.kind = "BlockKeyword" ->
                (IF n >= 1 THEN <<ThemeToken("Keyword", Some(t.spans[1]))>> ELSE <<>>)
                \o (IF n >= 2 THEN <<ThemeToken("Identifier", Some(t.spans[2]))>> ELSE <<>>)
                \o (IF n >= 3 THEN <<ThemeToken("Keyword", Some(t.spans[3]))>> ELSE <<>>)
          [] t.kind = "AttributeValue" ->
                <<ThemeToken("Keyword", Some(t.spans[1])),
                  ThemeToken("Literal", Some(t.spans[2]))>>
          [] t.kind = "Comment" -> <<ThemeToken("Comment", None)>>
          [] t.kind = "Error" -> <<>>

\* A parsed token of Theme::parse, (Token, Range<usize>)
Parsed(token, start, end) == [token |-> token, start |-> start, end |-> end]

\* The inner loop of Theme::parse for one lexer token: a theme token without
\* a span takes lexer.span()
RECURSIVE ResolveSpans(_, _)
ResolveSpans(tokens, t) ==
    IF tokens = <<>> THEN <<>>
    ELSE LET span == IF Head(tokens).span # None THEN Head(tokens).span[1]
                     ELSE Span(t.start, t.end)
         IN  <<Parsed(Head(tokens).token, span.start, span.end)>>
             \o ResolveSpans(Tail(tokens), t)

\* The outer loop of Theme::parse over the lexer's tokens
RECURSIVE ParsedTokens(_)
ParsedTokens(lexed) ==
    IF lexed = <<>> THEN <<>>
    ELSE ResolveSpans(into_theme_tokens(Head(lexed)), Head(lexed))
         \o ParsedTokens(Tail(lexed))

\* The events the callbacks traced while the source was lexed
RECURSIVE TracedEvents(_)
TracedEvents(lexed) ==
    IF lexed = <<>> THEN <<>> ELSE Head(lexed).log \o TracedEvents(Tail(lexed))

\* A trailing Whitespace token that spans the whole source.
trailing_whitespace_from_zero(parsed, len) ==
    Append(parsed, Parsed("Whitespace", 0, len))

\* The end of Theme::parse: the trailing Whitespace token runs from the end
\* of the last token pushed to the end of the source
with_trailing_whitespace(parsed, len) ==
    Append(parsed, Parsed("Whitespace",
                          IF parsed = <<>> THEN 0 ELSE parsed[Len(parsed)].end, len))

\* Theme::parse over the lexer's tokens: the parsed tokens and the lexer's
\* extras, which are the clone of the theme's context the lexer was created
\* with.  traced is what the callbacks logged.
parse_lexed(context, source, lexed) ==
    [tokens |-> with_trailing_whitespace(ParsedTokens(lexed), Len(source)),
     extras |-> context,
     traced |-> TracedEvents(lexed)]

\* Theme::parse
parse(context, source) == parse_lexed(context, source, Runmd(source, 0))

\* wgpu_glyph::Text, as far as render fills it: the slice of the source it
\* shows and what decides its color
Text(text, style) == [text |-> text, style |-> style]

\* &source[from..to] panics unless from <= to <= source.len()
SliceOk(source, from, to) == from <= to /\ to <= Len(source)

\* The loop of Theme::render over the parsed tokens.  A slice out of range
\* panics and render returns nothing.
RECURSIVE RenderTokens(_, _, _, _)
RenderTokens(source, tokens, cursor, texts) ==
    IF tokens = <<>> THEN [panic |-> FALSE, texts |-> texts]
    ELSE LET span == Head(tokens)
         IN  IF ~SliceOk(source, cursor, span.start)
             THEN [panic |-> TRUE, texts |-> texts]
             ELSE IF span.start < span.end
             THEN IF ~SliceOk(source, span.start, span.end)
                  THEN [panic |-> TRUE, texts |-> texts]
                  ELSE RenderTokens(source, Tail(tokens), span.end,
                           texts \o <<Text(Slice(source, cursor, span.start), "gap"),
                                      Text(Slice(source, span.start, span.end), span.token)>>)
             ELSE RenderTokens(source, Tail(tokens), span.end,
                      Append(texts, Text(Slice(source, cursor, span.start), "gap")))

\* Style::prompt(), the run render puts first when the prompt is enabled
Prompt == Text(<<">", " ">>, "prompt")

\* Theme::render
render(context, source, prompt_enabled) ==
    RenderTokens(source, parse(context, source).tokens, 0,
                 IF prompt_enabled THEN <<Prompt>> ELSE <<>>)

\* ---------------------------------------------------- Theme: color map

\* ColorTheme for DefaultTheme: the [f32; 4] a palette name stands for, in
\* units of 0.00001.  yellow() and orange() return the same array.
Style(name) ==
    CASE name = "background" -> <<2122, 2519, 3434, 100000>>
      [] name = "red" -> <<74540, 14996, 17789, 100000>>
      [] name = "blue" -> <<11954, 42869, 86316, 100000>>
      [] name = "purple" -> <<56471, 18782, 72306, 100000>>
      [] name = "green" -> <<31399, 54572, 19120, 100000>>
      [] name = "yellow" -> <<78354, 52712, 19807, 100000>>
      [] name = "orange" -> <<78354, 52712, 19807, 100000>>

\* A key of color_map: one of the fixed token kinds, or Token::Custom(name)
TokenKind(kind) == [kind |-> kind, name |-> <<>>]

Custom(name) == [kind |-> "Custom", name |-> name]

\* str::ends_with
EndsWith(s, pat) ==
    Len(pat) <= Len(s) /\ SubSeq(s, Len(s) - Len(pat) + 1, Len(s)) = pat

\* str::trim_end_matches: the pattern is removed from the end as often as
\* it stands there
RECURSIVE trim_end_matches(_, _)
trim_end_matches(s, pat) ==
    IF pat # <<>> /\ EndsWith(s, pat)
    THEN trim_end_matches(SubSeq(s, 1, Len(s) - Len(pat)), pat)
    ELSE s

\* "::color", what new_with and reset_colors trim from an entry's name
ColorSuffix == <<":", ":", "c", "o", "l", "o", "r">>

\* find_symbol_values("color") as new_with and reset_colors use it: the
\* (name, value) pairs of the graph whose name is "<name>::color"
find_symbol_values(graph) == {a \in graph : EndsWith(a.name, ColorSuffix)}

\* The key an entry's trimmed name selects (the first match of the loop
\* body)
color_token(name) ==
    CASE name = <<"b", "r", "a", "c", "k", "e", "t">> -> TokenKind("Bracket")
      [] name = <<"o", "p", "e", "r", "a", "t", "o", "r">> -> TokenKind("Operator")
      [] name = <<"m", "o", "d", "i", "f", "i", "e", "r">> -> TokenKind("Modifier")
      [] name = <<"i", "d", "e", "n", "t", "i", "f", "i", "e", "r">> -> TokenKind("Identifier")
      [] name = <<"l", "i", "t", "e", "r", "a", "l">> -> TokenKind("Literal")
      [] name = <<"c", "o", "m", "m", "e", "n", "t">> -> TokenKind("Comment")
      [] name = <<"w", "h", "i", "t", "e", "s", "p", "a", "c", "e">> -> TokenKind("Whitespace")
      [] name = <<"k", "e", "y", "w", "o", "r", "d">> -> TokenKind("Keyword")
      [] OTHER -> Custom(name)

\* The color a color name of a TextBuffer entry selects; an unknown name is
\* green
named_color(color_name) ==
    CASE color_name = <<"r", "e", "d">> -> Style("red")
      [] color_name = <<"g", "r", "e", "e", "n">> -> Style("green")
      [] color_name = <<"b", "l", "u", "e">> -> Style("blue")
      [] color_name = <<"p", "u", "r", "p", "l", "e">> -> Style("purple")
      [] color_name = <<"y", "e", "l", "l", "o", "w">> -> Style("yellow")
      [] color_name = <<"o", "r", "a", "n", "g", "e">> -> Style("orange")
      [] OTHER -> Style("green")

\* The color an entry's value selects (the second match of the loop body):
\* a FloatRange gives its three components and alpha 1.0, a TextBuffer its
\* named color, every other value white
color_value(value) ==
    CASE value.type = "FloatRange" -> value.ints \o <<100000>>
      [] value.type = "TextBuffer" -> named_color(value.text)
      [] OTHER -> <<100000, 100000, 100000, 100000>>

\* BTreeMap::insert(token, color) on color_map
set_color(map, token, color) == (token :> color) @@ map

\* The loop of new_with and of reset_colors: every color entry of the graph
\* is inserted under its key.  The entries of one graph select different
\* keys, so the order of the inserts does not show.
insert_entries(map, graph) ==
    [t \in DOMAIN map \cup {color_token(trim_end_matches(a.name, ColorSuffix)) :
                              a \in find_symbol_values(graph)} |->
        IF \E a \in find_symbol_values(graph) :
              color_token(trim_end_matches(a.name, ColorSuffix)) = t
        THEN color_value((CHOOSE a \in find_symbol_values(graph) :
                 color_token(trim_end_matches(a.name, ColorSuffix)) = t).value)
        ELSE map[t]]

\* The names new_with inserts as Custom tokens after the loop
PaletteNames == {"background", "red", "green", "blue", "purple", "yellow", "orange"}

\* A palette name as the characters of a Custom token's name
PaletteText(name) ==
    CASE name = "background" -> <<"b", "a", "c", "k", "g", "r", "o", "u", "n", "d">>
      [] name = "red" -> <<"r", "e", "d">>
      [] name = "green" -> <<"g", "r", "e", "e", "n">>
      [] name = "blue" -> <<"b", "l", "u", "e">>
      [] name = "purple" -> <<"p", "u", "r", "p", "l", "e">>
      [] name = "yellow" -> <<"y", "e", "l", "l", "o", "w">>
      [] name = "orange" -> <<"o", "r", "a", "n", "g", "e">>

\* The seven inserts that end new_with
insert_palette(map) ==
    [t \in DOMAIN map \cup {Custom(PaletteText(n)) : n \in PaletteNames} |->
        IF \E n \in PaletteNames : t = Custom(PaletteText(n))
        THEN Style(CHOOSE n \in PaletteNames : t = Custom(PaletteText(n)))
        ELSE map[t]]

\* Theme::new_with: the color_map of the new theme
new_with(tc) == insert_palette(insert_entries(<<>>, tc))

\* Theme::reset_colors
reset_colors(map, tc) == insert_entries(map, tc)

\* ------------------------------------------------------------- variables

VARIABLES
    dev,              \* SpecDevice: the CharDevice under test
    last,             \* SpecDevice: the last call, its argument and the device before it
    printable_writes, \* SpecDevice: the number of calls so far when each was the
                      \* write of a printable character, else -1
    overflow_checks,  \* the build profile: TRUE checks usize overflow, FALSE wraps
    panicked,         \* a call has panicked
    char_devices,     \* Shell: the registry, channel id -> CharDevice
    byte_tx,          \* Shell: byte_tx and byte_rx are Some (they are set together)
    byte_rx,          \* Shell: the pairs held by the bounded channel, oldest first
    handles_live,     \* Shell: a producer holds a ShellChannel of the current channel
    editing,          \* Shell: Option<u32> as a sequence of at most one id
    channel,          \* Shell: current_output, the active output channel
    connection,       \* Shell: connection is Some
    slast,            \* Shell: the last call and what it did
    source,           \* SpecTheme: the text under the theme
    context,          \* SpecTheme: the state graph of the theme's context
    parsed,           \* SpecTheme: what Theme::parse returned, once called
    rendered,         \* SpecTheme: what Theme::render returned, once called
    color_map,        \* Theme: color_map, token -> color
    theme_call        \* Theme: the last call that wrote color_map

deviceVars == <<dev, last, printable_writes>>

shellVars ==
    <<char_devices, byte_tx, byte_rx, handles_live, editing, channel, connection, slast>>

themeVars == <<source, context, parsed, rendered, color_map, theme_call>>

vars == <<deviceVars, shellVars, themeVars, overflow_checks, panicked>>

\* ----------------------------------------------------------------- Shell

\* What the last Shell call did (the calls no property looks back at are
\* recorded as "other"): the channel on_run received a byte for,
\* whether that channel had a device, the output channel before, the text a
\* channel switch drained, the bytes handed to try_write and how that write
\* ended.  For add_device: the entity id, whether a handle was returned and
\* the text of the device it replaced.
NoShellCall ==
    [op |-> "default", chan |-> 0, routed |-> FALSE, pre_channel |-> 0,
     drained |-> None, handed |-> None, outcome |-> "none"]

\* Shell::default()
ShellDefault ==
    /\ char_devices = <<>>
    /\ byte_tx = FALSE
    /\ byte_rx = <<>>
    /\ handles_live = FALSE
    /\ editing = None
    /\ channel = 0
    /\ connection = FALSE
    /\ slast = NoShellCall

\* No source is under the theme.
ThemeIdle ==
    /\ source = <<>>
    /\ context = {}
    /\ parsed = None
    /\ rendered = None
    /\ color_map = <<>>
    /\ theme_call = "default"

\* ------------------------------------------------------------ SpecDevice

\* The byte decodes to a key code with a printable character.
IsPrintable(byte) == DecoderWrite(byte)[1].printable # <<>>

NoCall == [op |-> "new", byte |-> 0, pre |-> NewDevice, out |-> <<>>]

\* The line counter stays within MaxCount of 0 or of the wrap point, and the
\* cursor within what goto_line can add to that.
InWindow(n) == n <= MaxCount \/ n >= UsizeMod - MaxCount

CursorInWindow(n) == n <= MaxCount + MaxLen \/ n >= UsizeMod - MaxCount - 1

\* A call with outcome r becomes the device's state.
DeviceStep(op, byte, r) ==
    /\ ~panicked
    /\ InWindow(r.dev.line)
    /\ CursorInWindow(r.dev.cursor)
    /\ Len(r.dev.buffer) <= MaxLen
    /\ dev' = r.dev
    /\ panicked' = r.panic
    /\ last' = [op |-> op, byte |-> byte, pre |-> dev, out |-> r.out]
    /\ printable_writes' =
         IF printable_writes >= 0 /\ op = "write" /\ IsPrintable(byte)
         THEN printable_writes + 1 ELSE -1
    /\ UNCHANGED <<overflow_checks, shellVars, themeVars>>

DevWrite == \E b \in Bytes : DeviceStep("write", b, write(dev, b, overflow_checks))

DevCursorLeft == DeviceStep("cursor_left", 0, cursor_left(dev, overflow_checks))

DevCursorRight == DeviceStep("cursor_right", 0, cursor_right(dev, overflow_checks))

DevCursorUp == DeviceStep("cursor_up", 0, cursor_up(dev, overflow_checks))

DevCursorDown == DeviceStep("cursor_down", 0, cursor_down(dev, overflow_checks))

DevTake == DeviceStep("take", 0, take(dev))

InitDevice ==
    /\ dev = NewDevice
    /\ last = NoCall
    /\ printable_writes = 0
    /\ overflow_checks \in BOOLEAN
    /\ panicked = FALSE
    /\ ShellDefault
    /\ ThemeIdle

NextDevice ==
    \/ DevWrite
    \/ DevCursorLeft
    \/ DevCursorRight
    \/ DevCursorUp
    \/ DevCursorDown
    \/ DevTake

SpecDevice == InitDevice /\ [][NextDevice]_vars

\* ------------------------------------------------------- Shell: actions

\* channel::<(u32, u8)>(300): the capacity of the bounded channel, scaled
\* down so that a full queue is reached.
QueueCapacity == 2

\* Longest buffer a device of the registry is driven to.
ShellMaxLen == 2

\* Entity ids and channel ids of a run.
ChannelIds == {0, 1, 2}

\* Characters the window delivers: space (32), Enter and Backspace.
KeyBytes == {32, CR, DEL}

\* Bytes an external producer sends for its channel.
ProducerBytes == {32}

\* The line counter of a registry device stays within ShellMaxCount of 0 or
\* of the wrap point.
ShellMaxCount == 1

ShellInWindow(d) ==
    /\ d.line <= ShellMaxCount \/ d.line >= UsizeMod - ShellMaxCount
    /\ d.cursor <= ShellMaxCount + ShellMaxLen \/ d.cursor >= UsizeMod - ShellMaxCount - 1

\* An insert that refuses the id 0.
MapInsert_skips_zero(devs, id, d) == IF id = 0 THEN devs ELSE (id :> d) @@ devs

\* BTreeMap::insert(id, device)
MapInsert(devs, id, d) == (id :> d) @@ devs

\* A send that queues the pair ahead of the pairs already held.
try_send_front(queue, pair) ==
    IF Len(queue) < QueueCapacity THEN <<pair>> \o queue ELSE queue

\* A send that queues the pair whatever the channel holds.
try_send_unbounded(queue, pair) == Append(queue, pair)

\* Sender::try_send: the pair is queued unless the channel is full.
try_send(queue, pair) ==
    IF Len(queue) < QueueCapacity THEN Append(queue, pair) ELSE queue

\* A receive that hands out the oldest pair and leaves it in the channel.
try_recv_peeks(queue) ==
    IF queue = <<>> THEN [pair |-> None, rest |-> queue]
    ELSE [pair |-> Some(Head(queue)), rest |-> queue]

\* Receiver::try_recv: the oldest pair, which leaves the channel, or
\* nothing when the channel is empty; it never waits.
try_recv(queue) ==
    IF queue = <<>> THEN [pair |-> None, rest |-> queue]
    ELSE [pair |-> Some(Head(queue)), rest |-> Tail(queue)]

\* should_drain without the exception for channel 0.
should_drain_any_channel(cur, c) == cur # c

\* A test that never asks for a drain.
should_drain_never(cur, c) == FALSE

\* should_drain with the comparison inverted.
should_drain_same_channel(cur, c) == cur = c /\ c # 0

\* on_run's test before take_buffer: self.channel != channel as i32 &&
\* channel != 0
should_drain(cur, c) == cur # c /\ c # 0

\* should_send with the line count off by one.
should_send_any_line(d, conn, c) == lines(d) > 0 /\ conn /\ c = 0

\* on_run's test after write_char: char_device.line_count() > 1 &&
\* self.connection.is_some() && channel == 0
should_send(d, conn, c) == lines(d) > 1 /\ conn /\ c = 0

\* The first half of on_run once write_char has returned w for the device
\* of channel c: the registry and output channel afterwards, the line to
\* send, and for the record the drained text and the device right after
\* write_char.  switch tells that the device was drained before the write.
on_run_written(devs, cur, c, conn, switch, w) ==
    IF w.panic
    THEN [devs |-> MapInsert(devs, c, w.dev), channel |-> cur, send |-> None,
          panic |-> TRUE, routed |-> TRUE,
          drained |-> IF switch THEN Some(take(devs[c]).out) ELSE None,
          written |-> w.dev]
    ELSE [devs |-> MapInsert(devs, c, IF should_send(w.dev, conn, c)
                                      THEN take(w.dev).dev ELSE w.dev),
          channel |-> c,
          send |-> IF should_send(w.dev, conn, c) THEN Some(take(w.dev).out) ELSE None,
          panic |-> FALSE, routed |-> TRUE,
          drained |-> IF switch THEN Some(take(devs[c]).out) ELSE None,
          written |-> w.dev]

\* A routing that first creates the device of a channel that has none.
on_run_route_creates_device(devs, cur, c, next, conn, chk) ==
    IF c \notin DOMAIN devs
    THEN on_run_written(MapInsert(devs, c, NewDevice), cur, c, conn, FALSE,
                        write(NewDevice, next, chk))
    ELSE on_run_written(devs, cur, c, conn, should_drain(cur, c),
                        write(IF should_drain(cur, c) THEN take(devs[c]).dev ELSE devs[c],
                              next, chk))

\* A routing that on a channel switch also takes the device of the channel
\* switched away from.
on_run_route_drains_previous(devs, cur, c, next, conn, chk) ==
    IF c \notin DOMAIN devs
    THEN [devs |-> devs, channel |-> cur, send |-> None, panic |-> FALSE,
          routed |-> FALSE, drained |-> None, written |-> NewDevice]
    ELSE [on_run_written(devs, cur, c, conn, should_drain(cur, c),
                         write(IF should_drain(cur, c) THEN take(devs[c]).dev ELSE devs[c],
                               next, chk))
            EXCEPT !.devs = IF should_drain(cur, c) /\ cur \in DOMAIN devs
                            THEN MapInsert(@, cur, NewDevice) ELSE @]

\* A routing that leaves the output channel alone for a byte of channel 0.
on_run_route_keeps_output(devs, cur, c, next, conn, chk) ==
    IF c \notin DOMAIN devs
    THEN [devs |-> devs, channel |-> cur, send |-> None, panic |-> FALSE,
          routed |-> FALSE, drained |-> None, written |-> NewDevice]
    ELSE [on_run_written(devs, cur, c, conn, should_drain(cur, c),
                         write(IF should_drain(cur, c) THEN take(devs[c]).dev ELSE devs[c],
                               next, chk))
            EXCEPT !.channel = IF c = 0 THEN cur ELSE @]

\* The first half of on_run for a received pair (channel c, byte next).
\* take_buffer, write_char and line_count are CharDevice::take, write and
\* lines.
on_run_route(devs, cur, c, next, conn, chk) ==
    IF c \notin DOMAIN devs
    THEN [devs |-> devs, channel |-> cur, send |-> None, panic |-> FALSE,
          routed |-> FALSE, drained |-> None, written |-> NewDevice]
    ELSE on_run_written(devs, cur, c, conn, should_drain(cur, c),
                        write(IF should_drain(cur, c) THEN take(devs[c]).dev ELSE devs[c],
                              next, chk))

\* A format that sends the first line only, without its separator.
format_first_line(line) ==
    (IF \E i \in DOMAIN line : line[i] = CR
     THEN SubSeq(line, 1, (CHOOSE i \in DOMAIN line :
                             line[i] = CR /\ \A j \in 1..(i - 1) : line[j] # CR) - 1)
     ELSE line) \o <<CR, LF>>

\* format!("{}\r\n", line)
format_line(line) == line \o <<CR, LF>>

\* The second half of on_run: the connection after try_write ended with
\* outcome; every error drops it.
connection_after(outcome) == outcome = "ok"

WriteOutcomes == {"ok", "would_block", "error"}

ShellCall(op) == [NoShellCall EXCEPT !.op = op]

\* Extension::on_render_init: a new channel replaces the old one, and an
\* empty registry gets the device of channel 0.
OnRenderInit ==
    /\ ~panicked
    /\ byte_tx' = TRUE
    /\ byte_rx' = <<>>
    /\ handles_live' = FALSE
    /\ IF DOMAIN char_devices = {}
       THEN /\ char_devices' = MapInsert(char_devices, 0, NewDevice)
            /\ editing' = Some(0)
       ELSE UNCHANGED <<char_devices, editing>>
    /\ slast' = ShellCall("other")
    /\ UNCHANGED <<channel, connection, deviceVars, themeVars, overflow_checks, panicked>>

\* add_device that keeps the device an id already has.
add_device_keeps_existing(devs, tx, id) ==
    IF tx THEN [devs |-> IF id \in DOMAIN devs THEN devs
                         ELSE MapInsert(devs, id, NewDevice),
                handle |-> TRUE]
    ELSE [devs |-> devs, handle |-> FALSE]

\* add_device that inserts the device whether or not there is a sender.
add_device_without_sender(devs, tx, id) ==
    [devs |-> MapInsert(devs, id, NewDevice), handle |-> tx]

\* Shell::add_device as a function of the registry and of whether byte_tx
\* holds a sender: the registry afterwards and whether a ShellChannel is
\* returned.
add_device(devs, tx, id) ==
    IF tx THEN [devs |-> MapInsert(devs, id, NewDevice), handle |-> TRUE]
    ELSE [devs |-> devs, handle |-> FALSE]

\* Shell::add_device called by a plugin for the entity id
AddDevice ==
    \E id \in ChannelIds :
        /\ ~panicked
        /\ char_devices' = add_device(char_devices, byte_tx, id).devs
        /\ handles_live' = (handles_live \/ add_device(char_devices, byte_tx, id).handle)
        /\ slast' = [ShellCall("add_device") EXCEPT
                        !.chan = id,
                        !.routed = add_device(char_devices, byte_tx, id).handle,
                        !.drained = IF id \in DOMAIN char_devices
                                    THEN Some(char_devices[id].buffer) ELSE None]
        /\ UNCHANGED <<byte_tx, byte_rx, editing, channel, connection, deviceVars, themeVars,
                       overflow_checks, panicked>>

\* on_window_event, WindowEvent::ReceivedCharacter
OnReceivedCharacter ==
    \E c \in KeyBytes :
        /\ ~panicked
        /\ byte_rx' = IF byte_tx /\ editing # None
                      THEN try_send(byte_rx, <<editing[1], c>>) ELSE byte_rx
        /\ slast' = [ShellCall("received_character") EXCEPT
                        !.routed = (byte_rx' # byte_rx)]
        /\ UNCHANGED <<char_devices, byte_tx, handles_live, editing, channel, connection,
                       deviceVars, themeVars, overflow_checks, panicked>>

\* prepare_render_input's second component: the device being edited
EditedDevice ==
    IF editing # None /\ editing[1] \in DOMAIN char_devices
    THEN Some(editing[1]) ELSE None

\* The cursor method an arrow key calls.
cursor_move(key, d, chk) ==
    CASE key = "Left" -> cursor_left(d, chk)
      [] key = "Right" -> cursor_right(d, chk)
      [] key = "Down" -> cursor_down(d, chk)
      [] key = "Up" -> cursor_up(d, chk)

\* What the cursor method with the outcome r leaves of the edited device id
ArrowStep(id, r) ==
    /\ ShellInWindow(r.dev)
    /\ char_devices' = MapInsert(char_devices, id, r.dev)
    /\ panicked' = r.panic
    /\ slast' = ShellCall("other")

\* on_window_event, WindowEvent::KeyboardInput with an arrow key
OnArrowKey ==
    \E key \in {"Left", "Right", "Down", "Up"} :
        /\ ~panicked
        /\ EditedDevice # None
        /\ ArrowStep(EditedDevice[1],
                     cursor_move(key, char_devices[EditedDevice[1]], overflow_checks))
        /\ UNCHANGED <<byte_tx, byte_rx, handles_live, editing, channel, connection,
                       deviceVars, themeVars, overflow_checks>>

\* on_window_event, WindowEvent::KeyboardInput with Tab: four spaces for
\* channel 0
OnTabKey ==
    /\ ~panicked
    /\ EditedDevice # None
    /\ byte_rx' = IF byte_tx
                  THEN try_send(try_send(try_send(try_send(byte_rx,
                           <<0, 32>>), <<0, 32>>), <<0, 32>>), <<0, 32>>)
                  ELSE byte_rx
    /\ slast' = ShellCall("other")
    /\ UNCHANGED <<char_devices, byte_tx, handles_live, editing, channel, connection,
                   deviceVars, themeVars, overflow_checks, panicked>>

\* A producer that holds a ShellChannel sends a pair; a full channel takes
\* nothing.
ProducerSend ==
    \E c \in ChannelIds \ {0}, b \in ProducerBytes :
        /\ ~panicked
        /\ handles_live
        /\ Len(byte_rx) < QueueCapacity
        /\ byte_rx' = Append(byte_rx, <<c, b>>)
        /\ slast' = ShellCall("other")
        /\ UNCHANGED <<char_devices, byte_tx, handles_live, editing, channel, connection,
                       deviceVars, themeVars, overflow_checks, panicked>>

\* Shell::connect_to: the connection is Some when the connect succeeds
ConnectTo ==
    \E ok \in BOOLEAN :
        /\ ~panicked
        /\ connection' = ok
        /\ slast' = ShellCall("other")
        /\ UNCHANGED <<char_devices, byte_tx, byte_rx, handles_live, editing, channel,
                       deviceVars, themeVars, overflow_checks, panicked>>

\* on_ui, the "Current output channel" input
SetOutputChannel ==
    \E c \in ChannelIds :
        /\ ~panicked
        /\ c # channel
        /\ channel' = c
        /\ slast' = ShellCall("other")
        /\ UNCHANGED <<char_devices, byte_tx, byte_rx, handles_live, editing, connection,
                       deviceVars, themeVars, overflow_checks, panicked>>

\* The rest of on_run for a pair of channel c that was routed as r: the
\* line to send, if any, goes to try_write, which ends in one of
\* WriteOutcomes.
OnRunStep(c, r) ==
    /\ Len(r.written.buffer) <= ShellMaxLen
    /\ ShellInWindow(r.written)
    /\ byte_rx' = try_recv(byte_rx).rest
    /\ char_devices' = r.devs
    /\ channel' = r.channel
    /\ panicked' = r.panic
    /\ \E outcome \in WriteOutcomes :
          /\ (r.send = None) => outcome = "ok"
          /\ connection' = IF r.send # None /\ connection
                           THEN connection_after(outcome) ELSE connection
          /\ slast' = [op |-> "on_run", chan |-> c,
                       routed |-> r.routed, pre_channel |-> channel,
                       drained |-> r.drained,
                       handed |-> IF r.send # None /\ connection
                                  THEN Some(format_line(r.send[1])) ELSE None,
                       outcome |-> IF r.send # None /\ connection
                                   THEN outcome ELSE "none"]

\* Extension::on_run with a pair to receive
OnRunPair ==
    /\ ~panicked
    /\ byte_tx
    /\ byte_rx # <<>>
    /\ OnRunStep(Head(byte_rx)[1],
                 on_run_route(char_devices, channel, Head(byte_rx)[1], Head(byte_rx)[2],
                              connection, overflow_checks))
    /\ UNCHANGED <<byte_tx, handles_live, editing, deviceVars, themeVars, overflow_checks>>

\* An on_run that falls back to output channel 0 when it receives nothing.
on_run_idle_resets_channel(devs, cur) ==
    [devs |-> devs, channel |-> 0, send |-> None]

\* on_run when byte_rx is None or try_recv yields nothing: no device is
\* looked up, self.channel is not assigned and send_to_connection stays
\* None, so the connection is not taken either.
on_run_idle(devs, cur) ==
    [devs |-> devs, channel |-> cur, send |-> None]

\* Extension::on_run with nothing to receive
OnRunIdle ==
    /\ ~panicked
    /\ ~byte_tx \/ byte_rx = <<>>
    /\ char_devices' = on_run_idle(char_devices, channel).devs
    /\ channel' = on_run_idle(char_devices, channel).channel
    /\ connection' = IF on_run_idle(char_devices, channel).send # None
                     THEN FALSE ELSE connection
    /\ slast' = ShellCall("on_run")
    /\ UNCHANGED <<byte_tx, byte_rx, handles_live, editing,
                   deviceVars, themeVars, overflow_checks, panicked>>

Init ==
    /\ dev = NewDevice
    /\ last = NoCall
    /\ printable_writes = 0
    /\ overflow_checks \in BOOLEAN
    /\ panicked = FALSE
    /\ ShellDefault
    /\ ThemeIdle

Next ==
    \/ OnRenderInit
    \/ AddDevice
    \/ OnReceivedCharacter
    \/ OnArrowKey
    \/ OnTabKey
    \/ ProducerSend
    \/ ConnectTo
    \/ SetOutputChannel
    \/ OnRunPair
    \/ OnRunIdle

Spec == Init /\ [][Next]_vars

\* ---------------------------------------------------------------- SpecLive
\* The Shell under a host that initialises rendering once and then keeps
\* calling on_run.  The arrow keys, which move the cursor of the edited
\* device and touch neither the channel nor on_run, are left out.

\* Extension::on_render_init, called by the host when the renderer is set
\* up
OnRenderInitOnce == ~byte_tx /\ OnRenderInit

NextLive ==
    \/ OnRenderInitOnce
    \/ AddDevice
    \/ OnReceivedCharacter
    \/ OnTabKey
    \/ ProducerSend
    \/ ConnectTo
    \/ SetOutputChannel
    \/ OnRunPair
    \/ OnRunIdle

\* on_run is invoked again and again and returns
SpecLive ==
    Init /\ [][NextLive]_vars /\ []<><<OnRunPair \/ OnRunIdle>>_vars

\* ------------------------------------------------------------- SpecTheme
\* A Theme over the Runmd grammar: a source is parsed and rendered.

\* How a line of a source starts: nothing, an event keyword with its
\* parameters, a block delimiter, a comment marker
Heads == {
    <<>>,
    <<"a", "d", "d", " ", "x", " ">>,
    <<"a", "d", "d", " ">>,
    <<"d", "e", "f", "i", "n", "e", " ", "x", " ", "y", " ">>,
    <<"d", "e", "f", "i", "n", "e", " ", "x", " ", "y">>,
    <<Grave, Grave, Grave, " ">>,
    <<Grave, Grave, Grave, " ", "x", " ">>,
    <<Grave, Grave, Grave, " ", "m", "d", " ">>,
    <<"#", " ">>,
    <<":", " ">>}

\* How it goes on: nothing, an attribute value that parses under its type
\* tag or does not, the tag of the empty value, a word, a name
Tails == {
    <<>>,
    <<".", "e", "m", "p", "t", "y">>,
    <<".", "t", "e", "x", "t", " ", "h", "i">>,
    <<".", "t", "e", "x", "t">>,
    <<".", "i", "n", "t", " ", "5">>,
    <<".", "i", "n", "t", " ", "h", "i">>,
    <<".", "i", "n", "t", "2", " ", "5", ",", " ", "6">>,
    <<"h", "i">>,
    <<"#", "n">>}

\* How it ends: "\n", "\r" (what the Enter key inserts), or not yet
Terminators == {
    <<"\n">>,
    <<"\r">>,
    <<>>}

Lines == {h \o t \o e : h \in Heads, t \in Tails, e \in Terminators}

\* What stands before the last line of a source: nothing, or one earlier
\* line
Openings == {
    <<>>,
    <<Grave, Grave, Grave, " ", "x", " ", "h", "i", "\n">>,
    <<".", "t", "e", "x", "t", "\n">>,
    <<"a", "d", "d", " ", "x", " ", ".", "i", "n", "t", "2", " ", "5", ",", " ", "6", "\r">>}

Sources == {o \o l : o \in Openings, l \in Lines}

\* The state graph of a context, as the set of its attributes
Attribute(name, value) == [name |-> name, value |-> value]

Contexts == {{}, {Attribute(<<"y">>, Value("TextBuffer", <<"h", "i">>, <<>>))}}

\* theme.parse::<Runmd>(source)
ThemeParse ==
    /\ ~panicked
    /\ parsed = None
    /\ parsed' = Some(parse(context, source))
    /\ UNCHANGED <<source, context, rendered, color_map, theme_call, deviceVars,
                   shellVars, overflow_checks, panicked>>

\* What a call of render with the outcome r leaves behind
Rendered(prompt_enabled, r) ==
    /\ ~panicked
    /\ rendered = None
    /\ rendered' = Some([prompt_enabled |-> prompt_enabled,
                         panic |-> r.panic, texts |-> r.texts])
    /\ panicked' = r.panic
    /\ UNCHANGED <<source, context, parsed, color_map, theme_call, deviceVars, shellVars,
                   overflow_checks>>

\* theme.render::<Runmd>(source, prompt_enabled)
ThemeRender ==
    \E prompt_enabled \in BOOLEAN :
        Rendered(prompt_enabled, render(context, source, prompt_enabled))

InitTheme ==
    /\ source \in Sources
    /\ context \in Contexts
    /\ parsed = None
    /\ rendered = None
    /\ color_map = new_with(context)
    /\ theme_call = "new_with"
    /\ dev = NewDevice
    /\ last = NoCall
    /\ printable_writes = 0
    /\ overflow_checks = TRUE
    /\ panicked = FALSE
    /\ ShellDefault

NextTheme ==
    \/ ThemeParse
    \/ ThemeRender

SpecTheme == InitTheme /\ [][NextTheme]_vars

\* ------------------------------------------------------------ SpecColors
\* A Theme built from a state graph with color entries; its colors are
\* edited and reset.

\* Names color entries are defined under: two token kinds, a palette name
\* and another custom name
ColorNames == {
    <<"b", "r", "a", "c", "k", "e", "t">>,
    <<"k", "e", "y", "w", "o", "r", "d">>,
    <<"r", "e", "d">>,
    <<"x">>}

\* Values of color entries: a known and an unknown color name, a float
\* range and a value of another type
ColorValues == {
    Value("TextBuffer", <<"b", "l", "u", "e">>, <<>>),
    Value("TextBuffer", <<"t", "e", "a", "l">>, <<>>),
    Value("FloatRange", <<>>, <<50000, 0, 25000>>),
    Value("Int", <<>>, <<5>>)}

ColorEntries == {Attribute(n \o ColorSuffix, v) : n \in ColorNames, v \in ColorValues}

\* Most entries a graph holds
MaxEntries == 2

\* The graphs: an attribute that is no color entry, and up to MaxEntries
\* color entries of different names
ColorContexts ==
    {{Attribute(<<"y">>, Value("TextBuffer", <<"h", "i">>, <<>>))} \cup g :
        g \in {g \in SUBSET ColorEntries :
                  /\ Cardinality(g) <= MaxEntries
                  /\ \A a, b \in g : a.name = b.name => a = b}}

\* Tokens and colors the color editor sets
EditedTokens == {TokenKind("Bracket"), Custom(<<"r", "e", "d">>), Custom(<<"x">>)}

EditedColors == {<<0, 0, 0, 100000>>}

\* What a call that leaves the color map m behind changes
ColorStep(call, m) ==
    /\ ~panicked
    /\ color_map' = m
    /\ theme_call' = call
    /\ UNCHANGED <<source, context, parsed, rendered, deviceVars, shellVars,
                   overflow_checks, panicked>>

\* theme.set_color(token, color), and an edit through colors_mut
ThemeSetColor ==
    \E token \in EditedTokens, color \in EditedColors :
        ColorStep("set_color", set_color(color_map, token, color))

\* theme.reset_colors()
ThemeResetColors == ColorStep("reset_colors", reset_colors(color_map, context))

InitColors ==
    /\ context \in ColorContexts
    /\ color_map = new_with(context)
    /\ theme_call = "new_with"
    /\ source = <<>>
    /\ parsed = None
    /\ rendered = None
    /\ dev = NewDevice
    /\ last = NoCall
    /\ printable_writes = 0
    /\ overflow_checks = TRUE
    /\ panicked = FALSE
    /\ ShellDefault

NextColors ==
    \/ ThemeSetColor
    \/ ThemeResetColors

SpecColors == InitColors /\ [][NextColors]_vars

\* --------------------------------------------------------- claims: Theme

RECURSIVE Concat(_)
Concat(seqs) == IF seqs = <<>> THEN <<>> ELSE Head(seqs) \o Concat(Tail(seqs))

\* The texts of the runs render returned, without the prompt run
RunTexts(texts, prompt_enabled) ==
    LET runs == IF prompt_enabled THEN Tail(texts) ELSE texts
    IN  [i \in DOMAIN runs |-> runs[i].text]

\* C5: for every source, render returns, and the text slices of its runs
\* (the prompt run left out), concatenated in order, equal the source: every
\* offset of the source is covered exactly once.
C5_RenderCoversSource ==
    rendered # None =>
        /\ ~rendered[1].panic
        /\ Concat(RunTexts(rendered[1].texts, rendered[1].prompt_enabled)) = source

\* C6: every add event the tokenizer reads whose value parses under its type
\* tag leaves the attribute of that name with that typed value in the state
\* graph parse returns.
C6_AddWritesGraph ==
    parsed # None =>
        \A i \in DOMAIN parsed[1].traced :
            parsed[1].traced[i].event = "Add" =>
                Attribute(parsed[1].traced[i].name, parsed[1].traced[i].value)
                    \in parsed[1].extras

\* C26: for every source, the tokens parse returns end with a Whitespace
\* token that starts where the last token before it ends (at 0 if there is
\* none) and ends at len(source), and no other token is a Whitespace token.
C26_TrailingWhitespace ==
    parsed # None =>
        /\ parsed[1].tokens # <<>>
        /\ parsed[1].tokens[Len(parsed[1].tokens)].token = "Whitespace"
        /\ parsed[1].tokens[Len(parsed[1].tokens)].end = Len(source)
        /\ parsed[1].tokens[Len(parsed[1].tokens)].start =
              IF Len(parsed[1].tokens) = 1 THEN 0
              ELSE parsed[1].tokens[Len(parsed[1].tokens) - 1].end
        /\ \A i \in 1..(Len(parsed[1].tokens) - 1) :
              parsed[1].tokens[i].token # "Whitespace"

C26_Witness ==
    /\ parsed # None
    /\ Len(parsed[1].tokens) > 2
    /\ parsed[1].tokens[Len(parsed[1].tokens)].start > 0
    /\ parsed[1].tokens[Len(parsed[1].tokens)].start
          < parsed[1].tokens[Len(parsed[1].tokens)].end

\* The span lies inside a source of length len.
SpanInside(span, len) == 0 <= span.start /\ span.start <= span.end /\ span.end <= len

\* C27: every span the runmd tokenizer emits for a source, the token's own
\* span and the spans it carries (type tag and literal of an attribute
\* value, name and symbol of an add or define event, parts of a block
\* delimiter), satisfies 0 <= start <= end <= len(source).
C27_SpansInsideSource ==
    parsed # None =>
        \A i \in DOMAIN Runmd(source, 0) :
            /\ SpanInside(Span(Runmd(source, 0)[i].start, Runmd(source, 0)[i].end),
                          Len(source))
            /\ \A j \in DOMAIN Runmd(source, 0)[i].spans :
                  SpanInside(Runmd(source, 0)[i].spans[j], Len(source))

\* The rest of the line that starts at pos: up to the next '\r' or '\n', or
\* to the end of the source when the line is not terminated yet.
RestOfLine(s, pos) ==
    IF FindEol(From(s, pos), 0) < 0 THEN From(s, pos)
    ELSE Slice(s, pos, pos + FindEol(From(s, pos), 0))

\* The number of identifier elements among the elements of a line.
RECURSIVE SymbolCount(_)
SymbolCount(elements) ==
    IF elements = <<>> THEN 0
    ELSE (IF Head(elements).kind = "Symbol" THEN 1 ELSE 0) + SymbolCount(Tail(elements))

\* The kinds of a sequence of theme tokens.
TokenKinds(tokens) == [i \in DOMAIN tokens |-> tokens[i].token]

\* The theme tokens the claim gives a block delimiter followed by n
\* identifier elements.
DelimiterKinds(n) ==
    IF n = 0 THEN <<"Bracket">>
    ELSE IF n = 1 THEN <<"Bracket", "Keyword">>
    ELSE <<"Bracket", "Identifier", "Keyword">>

\* C28: a block delimiter followed on its line by two identifier elements
\* gives the tokens Bracket, Identifier, Keyword, by one Bracket, Keyword,
\* and by none Bracket only.
C28_DelimiterByElementCount ==
    parsed # None =>
        \A i \in DOMAIN Runmd(source, 0) :
            (/\ Runmd(source, 0)[i].kind = "BlockDelimitter"
             /\ SymbolCount(Elements(RestOfLine(source, Runmd(source, 0)[i].start + 3), 0)) <= 2)
            => TokenKinds(into_theme_tokens(Runmd(source, 0)[i])) =
                  DelimiterKinds(SymbolCount(
                      Elements(RestOfLine(source, Runmd(source, 0)[i].start + 3), 0)))

\* The line after the delimiter that starts at pos is terminated.
Terminated(s, pos) == FindEol(From(s, pos + 3), 0) >= 0

\* The theme tokens of a block delimiter by the elements after it on a
\* terminated line: the first two elements decide.
KindsByFirstTwo(elements) ==
    IF Len(elements) >= 2 /\ elements[1].kind = "Symbol" /\ elements[2].kind = "Symbol"
    THEN DelimiterKinds(2)
    ELSE IF Len(elements) = 1 /\ elements[1].kind = "Symbol"
    THEN DelimiterKinds(1)
    ELSE DelimiterKinds(0)

\* C28, amended: a block delimiter on a terminated line is tokenized by the
\* elements that follow it on the line: Bracket, Identifier, Keyword when
\* the first two elements are identifiers; Bracket, Keyword when the only
\* element is an identifier; Bracket only in every other case, and on a
\* line that is not terminated yet whatever follows.
C28_DelimiterByFirstElements ==
    parsed # None =>
        \A i \in DOMAIN Runmd(source, 0) :
            Runmd(source, 0)[i].kind = "BlockDelimitter" =>
                TokenKinds(into_theme_tokens(Runmd(source, 0)[i])) =
                    IF Terminated(source, Runmd(source, 0)[i].start)
                    THEN KindsByFirstTwo(
                             Elements(RestOfLine(source, Runmd(source, 0)[i].start + 3), 0))
                    ELSE DelimiterKinds(0)

C28_Witness ==
    /\ parsed # None
    /\ \E i \in DOMAIN Runmd(source, 0) :
          /\ Runmd(source, 0)[i].kind = "BlockDelimitter"
          /\ Terminated(source, Runmd(source, 0)[i].start)
          /\ Len(Runmd(source, 0)[i].spans) = 3
    /\ \E j \in DOMAIN Runmd(source, 0) :
          /\ Runmd(source, 0)[j].kind = "BlockDelimitter"
          /\ ~Terminated(source, Runmd(source, 0)[j].start)
          /\ SymbolCount(Elements(RestOfLine(source, Runmd(source, 0)[j].start + 3), 0)) = 2
          /\ Len(Runmd(source, 0)[j].spans) = 1
    /\ Len(parsed[1].tokens) >= 5

\* The elements of the line after the event keyword of the token t.
EventElements(s, t) == Elements(RestOfLine(s, t.spans[1].end), 0)

\* The token t is an add event, or a define event, whose line names the
\* attribute (and for define the symbol) and then holds a typed value; n is
\* the number of names, 1 for add and 2 for define.
IsEventWithValue(s, t, event, n) ==
    /\ t.kind = "BlockKeyword"
    /\ t.spans # <<>>
    /\ graph_event(Slice(s, t.spans[1].start, t.spans[1].end)) = event
    /\ FindEol(From(s, t.spans[1].end), 0) >= 0
    /\ Len(EventElements(s, t)) > n
    /\ \A k \in 1..n : EventElements(s, t)[k].kind = "Symbol"
    /\ get_value(EventElements(s, t)[n + 1]) # None

\* The offset in the source of the type tag of the event's value.
TypeTagOffset(s, t, n) == t.spans[1].end + EventElements(s, t)[n + 1].start

\* The token t carries n + 1 spans in source order, the event keyword first,
\* and the token next after it is the Attribute-value token that starts at
\* the value's type tag.
EventThenValue(s, t, next, n) ==
    /\ Len(t.spans) = n + 1
    /\ t.spans[1] = Span(t.start, t.spans[1].end)
    /\ \A k \in 1..n :
          /\ t.spans[k].start <= t.spans[k].end
          /\ t.spans[k].end <= t.spans[k + 1].start
    /\ t.spans[n + 1].start <= t.spans[n + 1].end
    /\ next # <<>>
    /\ next[1].kind = "AttributeValue"
    /\ next[1].start = TypeTagOffset(s, t, n)
    /\ t.end <= next[1].start

\* C29: an add or define event whose line holds a typed value is emitted
\* with its spans in source order (event keyword, attribute name, for define
\* the symbol name), and the next token emitted is the Attribute-value token
\* of that value: the event consumes the line no further than the value's
\* type tag.
C29_EventThenAttributeValue ==
    parsed # None =>
        \A i \in DOMAIN Runmd(source, 0) :
            /\ IsEventWithValue(source, Runmd(source, 0)[i], "Add", 1) =>
                  EventThenValue(source, Runmd(source, 0)[i],
                                 SubSeq(Runmd(source, 0), i + 1, i + 1), 1)
            /\ IsEventWithValue(source, Runmd(source, 0)[i], "Define", 2) =>
                  EventThenValue(source, Runmd(source, 0)[i],
                                 SubSeq(Runmd(source, 0), i + 1, i + 1), 2)

\* The text on_attribute_value lexes for the "." at pos: the "." and the rest
\* of its line.
ValueText(s, pos) == Slice(s, pos, pos + 1 + FindEol(From(s, pos + 1), 0))

\* At pos a terminated line holds a type tag that takes a value, and the
\* rest of the line does not parse under it.
FailsUnderTypeTag(s, pos) ==
    /\ s[pos + 1] = "."
    /\ FindEol(From(s, pos + 1), 0) >= 0
    /\ MatchingAt(TypeTags, ValueText(s, pos), 0) # {}
    /\ Longest(MatchingAt(TypeTags, ValueText(s, pos), 0)).kind # "Empty"
    /\ ElementAt(ValueText(s, pos), 0).kind = "Error"

\* C30: an attribute value whose remainder does not parse under its type tag
\* still has a highlighting token in the tokens parse returns, starting at
\* the type tag, and parse returns the state graph it started with.
C30_FailedValueStillHighlighted ==
    parsed # None =>
        \A i \in DOMAIN Runmd(source, 0) :
            FailsUnderTypeTag(source, Runmd(source, 0)[i].start) =>
                /\ \E k \in 1..(Len(parsed[1].tokens) - 1) :
                      /\ parsed[1].tokens[k].start = Runmd(source, 0)[i].start
                      /\ parsed[1].tokens[k].token \in {"Keyword", "Literal"}
                /\ parsed[1].extras = context



\* The key and the color the claim speaks of for a color entry
EntryToken(a) == color_token(trim_end_matches(a.name, ColorSuffix))

EntryColor(a) == color_value(a.value)

\* C31: after new_with and after reset_colors, the token of every entry
\* under the graph's "color" namespace is mapped to the color the entry
\* designates, whatever the palette assigns to that token.
C31_ColorEntriesOverride ==
    theme_call \in {"new_with", "reset_colors"} =>
        \A a \in find_symbol_values(context) :
            /\ EntryToken(a) \in DOMAIN color_map
            /\ color_map[EntryToken(a)] = EntryColor(a)

\* Where the final line of s starts: behind its last '\r' or '\n'
FinalLineStart(s) ==
    IF \E i \in DOMAIN s : s[i] \in EolChars
    THEN CHOOSE i \in DOMAIN s :
            s[i] \in EolChars /\ \A j \in (i + 1)..Len(s) : s[j] \notin EolChars
    ELSE 0

\* The tokens parse finds in the lines before the final line
TokensBefore(s) == ParsedTokens(Runmd(SubSeq(s, 1, FinalLineStart(s)), 0))

\* Of the tokens all, those behind the tokens before are Bracket tokens of
\* a block delimiter, followed by the trailing Whitespace token.
FinalLineAddsBrackets(s, all, before) ==
    /\ Len(before) < Len(all)
    /\ SubSeq(all, 1, Len(before)) = before
    /\ \A i \in (Len(before) + 1)..(Len(all) - 1) :
          /\ all[i].token = "Bracket"
          /\ all[i].start >= FinalLineStart(s)
          /\ Slice(s, all[i].start, all[i].end) = <<Grave, Grave, Grave>>
    /\ all[Len(all)].token = "Whitespace"
    /\ all[Len(all)].end = Len(s)

\* C40: the final line of a source, which has no terminator yet, adds no
\* token to those of the lines before it except the Bracket token of a block
\* delimiter: its events, attribute values and comment markers yield none,
\* and the trailing Whitespace token follows.
C40_InProgressLineUntokenized ==
    parsed # None =>
        FinalLineAddsBrackets(source, parsed[1].tokens, TokensBefore(source))

C40_Witness ==
    /\ parsed # None
    /\ FinalLineStart(source) > 0
    /\ From(source, FinalLineStart(source)) =
          <<"a", "d", "d", " ", "x", " ", ".", "t", "e", "x", "t", " ", "h", "i">>
    /\ TokensBefore(source) # <<>>
    /\ Len(parsed[1].tokens) = Len(TokensBefore(source)) + 1

\* --------------------------------------------------------- claims: Shell

\* The pair on_run is about to receive.
NextChannel == Head(byte_rx)[1]
NextByte == Head(byte_rx)[2]

\* The step is an on_run call that received a pair.
IsOnRunPair ==
    byte_tx /\ byte_rx # <<>> /\ slast'.op = "on_run" /\ byte_rx' = Tail(byte_rx)

\* C4 as claimed: when on_run processes a byte for a channel other than the
\* active output channel, the device of the channel switched away from
\* (non-zero, line count > 0) is drained.
C4_DrainsSwitchedAway ==
    [][\A p \in DOMAIN char_devices :
          ( /\ IsOnRunPair /\ slast'.routed /\ ~panicked'
            /\ p = channel /\ p # NextChannel /\ p # 0
            /\ lines(char_devices[p]) > 0 )
          => char_devices'[p] = NewDevice]_vars

\* C4 as amended: when on_run processes a byte for a non-zero channel c
\* that has a device and is not the active output channel, the device of c
\* itself is drained before the byte is written to it, and every other
\* device, the one switched away from included, is left as it was.
C4_DrainsSwitchedTo ==
    [][(IsOnRunPair /\ slast'.routed /\ ~panicked') =>
          /\ (NextChannel # channel /\ NextChannel # 0) =>
                char_devices'[NextChannel] =
                    write(NewDevice, NextByte, overflow_checks).dev
          /\ \A p \in DOMAIN char_devices \ {NextChannel} :
                char_devices'[p] = char_devices[p]]_vars

C4_Witness ==
    /\ slast.op = "on_run" /\ slast.routed /\ ~panicked
    /\ slast.chan \notin {0, slast.pre_channel}
    /\ slast.pre_channel # 0
    /\ slast.pre_channel \in DOMAIN char_devices
    /\ lines(char_devices[slast.pre_channel]) > 0
    /\ slast.drained # None
    /\ slast.drained[1] # <<>>

\* The device of the received channel right after write_char.
WrittenDevice ==
    write(IF NextChannel # channel /\ NextChannel # 0
          THEN NewDevice ELSE char_devices[NextChannel],
          NextByte, overflow_checks).dev

\* C7: when a byte for channel 0 leaves its device with more than one line
\* and a connection is open, that step takes the device (it is left empty)
\* and hands its text followed by "\r\n" to the connection writer; in every
\* other case nothing is handed over and the written buffer is kept.
C7_HandOff ==
    [][(IsOnRunPair /\ ~panicked') =>
          IF /\ NextChannel \in DOMAIN char_devices
             /\ NextChannel = 0
             /\ connection
             /\ lines(WrittenDevice) > 1
          THEN /\ char_devices'[0] = NewDevice
               /\ slast'.handed = Some(WrittenDevice.buffer \o <<CR, LF>>)
          ELSE /\ slast'.handed = None
               /\ NextChannel \in DOMAIN char_devices =>
                     char_devices'[NextChannel] = WrittenDevice]_vars

C7_Witness ==
    /\ slast.op = "on_run" /\ slast.chan = 0 /\ ~panicked
    /\ slast.handed # None
    /\ Len(slast.handed[1]) > 3
    /\ char_devices[0] = NewDevice

\* C19: an on_run call that receives a pair whose channel has no device
\* returns and creates no device: the channel ids of the registry, every
\* device, the output channel and the connection are unchanged, the pair is
\* consumed and nothing is handed to the connection writer.
C19_UnknownChannelDiscarded ==
    [][(IsOnRunPair /\ NextChannel \notin DOMAIN char_devices) =>
          /\ ~panicked'
          /\ DOMAIN char_devices' = DOMAIN char_devices
          /\ \A p \in DOMAIN char_devices : char_devices'[p] = char_devices[p]
          /\ channel' = channel
          /\ connection' = connection
          /\ byte_rx' = Tail(byte_rx)
          /\ slast'.handed = None]_vars

C19_Witness ==
    /\ slast.op = "on_run" /\ ~slast.routed /\ ~panicked
    /\ slast.chan # 0
    /\ slast.chan \notin DOMAIN char_devices
    /\ \E p \in DOMAIN char_devices : char_devices[p].buffer # <<>>

\* C20: add_device(id) called while no producer channel is configured
\* returns none and leaves the registry unchanged; called once one is
\* configured it puts a new empty CharDevice under id, leaves every other
\* device as it was and returns a handle.
C20_AddDevice ==
    [][\A id \in ChannelIds :
          (slast'.op = "add_device" /\ slast'.chan = id) =>
              IF byte_tx
              THEN /\ DOMAIN char_devices' = DOMAIN char_devices \cup {id}
                   /\ char_devices'[id] = NewDevice
                   /\ \A p \in DOMAIN char_devices \ {id} :
                         char_devices'[p] = char_devices[p]
                   /\ slast'.routed
                   /\ handles_live'
              ELSE /\ char_devices' = char_devices
                   /\ ~slast'.routed
                   /\ handles_live' = handles_live]_vars

C20_Witness ==
    /\ slast.op = "add_device" /\ slast.routed
    /\ char_devices[slast.chan] = NewDevice
    /\ \E p \in DOMAIN char_devices \ {slast.chan} : char_devices[p].buffer # <<>>

\* C21: add_device(id) for an id that already has a device overwrites it:
\* afterwards the device under id is a new empty CharDevice, whatever its
\* buffer, cursor and current line were, and every other device is as it
\* was.
C21_AddDeviceOverwrites ==
    [][\A id \in DOMAIN char_devices :
          (slast'.op = "add_device" /\ slast'.chan = id) =>
              /\ DOMAIN char_devices' = DOMAIN char_devices
              /\ char_devices'[id] = NewDevice
              /\ \A p \in DOMAIN char_devices \ {id} :
                    char_devices'[p] = char_devices[p]]_vars

C21_Witness ==
    /\ slast.op = "add_device"
    /\ slast.drained # None
    /\ slast.drained[1] # <<>>
    /\ char_devices[slast.chan] = NewDevice
    /\ \E p \in DOMAIN char_devices \ {slast.chan} : char_devices[p].buffer # <<>>

\* C22: in every state reached after on_render_init by add_device, on_run,
\* window events and further on_render_init calls, the registry holds a
\* device for channel 0.
C22_ChannelZeroPresent == byte_tx => 0 \in DOMAIN char_devices

C22_Witness ==
    /\ byte_tx /\ ~handles_live /\ ~panicked
    /\ slast.op = "other"
    /\ DOMAIN char_devices = ChannelIds
    /\ char_devices[0].buffer # <<>>

\* C23: the inbound queue never holds more pairs than its capacity, and a
\* keystroke offered while the queue is full returns with the queue, the
\* registry, the output channel and the connection as they were.
C23_QueueBounded ==
    /\ [](Len(byte_rx) <= QueueCapacity)
    /\ [][(slast'.op = "received_character" /\ Len(byte_rx) = QueueCapacity) =>
             /\ byte_rx' = byte_rx
             /\ ~slast'.routed
             /\ ~panicked'
             /\ UNCHANGED <<char_devices, channel, connection, editing, byte_tx>>]_vars

C23_Witness ==
    /\ slast.op = "received_character" /\ ~slast.routed
    /\ byte_tx /\ editing # None
    /\ Len(byte_rx) = QueueCapacity
    /\ \E i \in 1..Len(byte_rx) : byte_rx[i][1] # 0

\* C24: an on_run call that finds no receiver or an empty inbound queue
\* returns and leaves every device, the output channel, the connection and
\* the queue as they were.
C24_OnRunIdleChangesNothing ==
    [][(slast'.op = "on_run" /\ (~byte_tx \/ byte_rx = <<>>)) =>
          /\ ~panicked'
          /\ char_devices' = char_devices
          /\ channel' = channel
          /\ connection' = connection
          /\ byte_rx' = byte_rx
          /\ slast'.handed = None]_vars

C24_Witness ==
    /\ slast = ShellCall("on_run") /\ ~panicked
    /\ byte_tx /\ byte_rx = <<>>
    /\ connection
    /\ channel # 0
    /\ lines(char_devices[0]) > 1

\* C25: when on_run writes a completed line to the connection, the
\* connection is kept if the write succeeds or fails with would-block, and
\* dropped if it fails with any other error.
C25_WouldBlockKeepsConnection ==
    [][(slast'.op = "on_run" /\ slast'.handed # None) =>
          connection' = (slast'.outcome \in {"ok", "would_block"})]_vars

\* C32: when on_run processes a byte for a non-zero channel c that has a
\* device and is not the output channel, the device of c is taken before the
\* byte is written: afterwards its buffer holds only what that byte
\* produced on an empty device, the text it held before went to the
\* discarded result of take_buffer and nothing is handed to the connection.
C32_SwitchResetsReceiver ==
    [][( /\ IsOnRunPair /\ slast'.routed /\ ~panicked'
         /\ NextChannel # 0 /\ NextChannel # channel ) =>
          /\ char_devices'[NextChannel].buffer =
                write(NewDevice, NextByte, overflow_checks).dev.buffer
          /\ Len(char_devices'[NextChannel].buffer) <= 1
          /\ slast'.drained = Some(char_devices[NextChannel].buffer)
          /\ slast'.handed = None]_vars

C32_Witness ==
    /\ slast.op = "on_run" /\ slast.routed /\ ~panicked
    /\ slast.chan \notin {0, slast.pre_channel}
    /\ slast.drained # None
    /\ Len(slast.drained[1]) = ShellMaxLen
    /\ char_devices[slast.chan].buffer = <<32>>

\* C33: an on_run call that returns leaves the output channel equal to the
\* channel of the pair it received when that channel has a device, channel
\* 0 included; when the channel has no device, or nothing was received, the
\* output channel is what it was.
C33_OutputChannelFollows ==
    [][(slast'.op = "on_run" /\ ~panicked') =>
          channel' = IF /\ byte_tx /\ byte_rx # <<>>
                        /\ NextChannel \in DOMAIN char_devices
                     THEN NextChannel ELSE channel]_vars

C33_Witness ==
    /\ slast.op = "on_run" /\ slast.routed /\ ~panicked
    /\ slast.chan = 0
    /\ slast.pre_channel # 0
    /\ channel = 0

\* C34: an on_run call that receives the pair (c, byte) leaves the registry
\* with the same channel ids, and the device of every channel other than c
\* (its buffer, cursor, line and line index) as it was.
C34_OtherDevicesUnchanged ==
    [][IsOnRunPair =>
          /\ DOMAIN char_devices' = DOMAIN char_devices
          /\ \A p \in DOMAIN char_devices :
                p # NextChannel =>
                    /\ char_devices'[p].buffer = char_devices[p].buffer
                    /\ char_devices'[p].cursor = char_devices[p].cursor
                    /\ char_devices'[p].line = char_devices[p].line
                    /\ char_devices'[p].line_info = char_devices[p].line_info]_vars

C34_Witness ==
    /\ slast.op = "on_run" /\ slast.routed
    /\ slast.chan # slast.pre_channel
    /\ slast.pre_channel \in DOMAIN char_devices
    /\ Len(char_devices[slast.pre_channel].buffer) = ShellMaxLen
    /\ char_devices[slast.chan].buffer # <<>>
    /\ \E p \in DOMAIN char_devices \ {slast.chan, slast.pre_channel} :
          char_devices[p].buffer # <<>>

\* C35: the drain of a channel switch never applies to channel 0.  A byte
\* for channel 0 received while another channel is the output channel drains
\* nothing: it is written into the device as it stood, and that is what is
\* kept or, at a hand-off, handed over.  While no connection is open every
\* on_run call that returns leaves device 0 as write_char left it (as it was
\* when the pair was not for channel 0), so a buffer of two or more
\* characters is never left empty.
C35_ChannelZeroNeverDrained ==
    [][( /\ slast'.op = "on_run" /\ ~panicked'
         /\ 0 \in DOMAIN char_devices ) =>
          /\ (IsOnRunPair /\ NextChannel = 0 /\ channel # 0) =>
                /\ slast'.drained = None
                /\ IF slast'.handed = None
                   THEN char_devices'[0] =
                           write(char_devices[0], NextByte, overflow_checks).dev
                   ELSE slast'.handed =
                           Some(write(char_devices[0], NextByte,
                                      overflow_checks).dev.buffer \o <<CR, LF>>)
          /\ ~connection =>
                /\ char_devices'[0] =
                      IF IsOnRunPair /\ NextChannel = 0
                      THEN write(char_devices[0], NextByte, overflow_checks).dev
                      ELSE char_devices[0]
                /\ Len(char_devices[0].buffer) > 1 => char_devices'[0].buffer # <<>>]_vars

C35_Witness ==
    /\ slast.op = "on_run" /\ slast.routed /\ ~panicked
    /\ slast.chan = 0
    /\ slast.pre_channel # 0
    /\ ~connection
    /\ slast.handed = None
    /\ slast.drained = None
    /\ Len(char_devices[0].buffer) = ShellMaxLen

\* The queue q is the beginning of the queue r.
IsPrefix(q, r) == Len(q) <= Len(r) /\ SubSeq(r, 1, Len(q)) = q

\* C36: an on_run call with a non-empty queue removes exactly the oldest
\* pair and it is that pair it routes (written to the device of its
\* channel, or dropped when the channel has none); a keystroke, a Tab and a
\* producer's send only add pairs behind the ones already held.  So pairs
\* are applied in the order they were accepted.
C36_OldestPairFirst ==
    [][/\ (slast'.op = "on_run" /\ byte_tx /\ byte_rx # <<>>) =>
             /\ byte_rx' = Tail(byte_rx)
             /\ slast'.chan = NextChannel
             /\ slast'.routed = (NextChannel \in DOMAIN char_devices)
             /\ (slast'.routed /\ ~panicked' /\ slast'.handed = None) =>
                    char_devices'[NextChannel] = WrittenDevice
       /\ (OnReceivedCharacter \/ OnTabKey \/ ProducerSend) =>
             /\ IsPrefix(byte_rx, byte_rx')
             /\ char_devices' = char_devices]_vars

C36_Witness ==
    /\ slast.op = "on_run" /\ slast.routed /\ ~panicked
    /\ Len(byte_rx) = QueueCapacity - 1
    /\ byte_rx[1][1] # slast.chan
    /\ char_devices[slast.chan].buffer # <<>>

\* The queue holds a pair for the channel c.
Holds(c) == \E i \in DOMAIN byte_rx : byte_rx[i][1] = c

\* The last call was an on_run that received a pair for the channel c and
\* wrote it to the device of c, or dropped it because c has no device.
DequeuedFor(c) ==
    /\ slast.op = "on_run" /\ slast.chan = c
    /\ IF c \in DOMAIN char_devices THEN slast.routed ELSE ~slast.routed /\ c # 0

C39_HandOffWholeBuffer ==
    [][(IsOnRunPair /\ slast'.handed # None) =>
          /\ NextChannel = 0
          /\ SubSeq(slast'.handed[1], 1, Len(slast'.handed[1]) - 2) =
                write(char_devices[0], NextByte, overflow_checks).dev.buffer
          /\ SubSeq(slast'.handed[1], Len(slast'.handed[1]) - 1,
                    Len(slast'.handed[1])) = <<CR, LF>>
          /\ \E i \in 1..(Len(slast'.handed[1]) - 2) : slast'.handed[1][i] = CR
          /\ slast'.handed[1] #
                get_line(write(char_devices[0], NextByte, overflow_checks).dev, 0)[1]
                    \o <<CR, LF>>]_vars

C39_Witness ==
    /\ slast.op = "on_run" /\ slast.chan = 0 /\ ~panicked
    /\ slast.handed # None
    /\ Len(slast.handed[1]) = ShellMaxLen + 2
    /\ slast.handed[1][1] = CR
    /\ slast.handed[1][2] = 32

\* ---------------------------------------------------- claims: CharDevice

NavOps == {"cursor_left", "cursor_right", "cursor_up", "cursor_down"}

IsBackspaceWrite == last.op = "write" /\ last.byte = DEL

\* C1: in every state reached from a new device by calls that returned,
\* the cursor is an offset into the buffer: 0 <= cursor <= len(buffer).
C1_CursorWithinBuffer ==
    ~panicked => (0 <= dev.cursor /\ dev.cursor <= Len(dev.buffer))

\* C2: a navigation call never panics and never underflows a counter: it
\* leaves the device unchanged or moves to a cursor inside the buffer and a
\* current line that is a line of the buffer.
C2_NavigationClamped ==
    last.op \in NavOps =>
        /\ ~panicked
        /\ \/ dev = last.pre
           \/ /\ dev.cursor <= Len(dev.buffer)
              /\ dev.line < Len(SplitLens(dev.buffer, 0))

\* C3: on an empty device (new, or just taken) every navigation call and a
\* Backspace write return and leave buffer, cursor, current line and line
\* index unchanged.
C3_EmptyDeviceNoOps ==
    (last.pre = NewDevice /\ (last.op \in NavOps \/ IsBackspaceWrite)) =>
        (~panicked /\ dev = last.pre)

\* C8: a Backspace write with a non-empty buffer and cursor > 0 removes the
\* character before the cursor, so the buffer and the cursor shrink by one;
\* with an empty buffer or cursor = 0 it changes neither.
C8_Backspace ==
    IsBackspaceWrite =>
        IF last.pre.buffer # <<>> /\ last.pre.cursor > 0
        THEN /\ ~panicked
             /\ Len(dev.buffer) = Len(last.pre.buffer) - 1
             /\ dev.cursor = last.pre.cursor - 1
             /\ dev.buffer = RemoveAt(last.pre.buffer, last.pre.cursor - 1)
        ELSE /\ ~panicked
             /\ dev.buffer = last.pre.buffer
             /\ dev.cursor = last.pre.cursor
             /\ dev.line = last.pre.line

\* C9: after n writes of printable characters to a new device and no other
\* call, the buffer holds n characters and the cursor is at its end.
C9_PrintableWrites ==
    printable_writes >= 0 =>
        /\ ~panicked
        /\ Len(dev.buffer) = printable_writes
        /\ dev.cursor = Len(dev.buffer)

C9_Witness == printable_writes = MaxLen /\ Len(dev.buffer) = MaxLen

\* C10: right after take the device is the empty initial device: the full
\* text, the text before and after the cursor are empty, and the line
\* count, the cursor and the current line are 0.
C10_TakeResets ==
    last.op = "take" =>
        /\ ~panicked
        /\ dev = NewDevice
        /\ output(dev) = <<>>
        /\ before_cursor(dev) = [panic |-> FALSE, text |-> <<>>]
        /\ after_cursor(dev) = [panic |-> FALSE, text |-> <<>>]
        /\ lines(dev) = 0
        /\ dev.cursor = 0
        /\ dev.line = 0

C10_Witness ==
    /\ last.op = "take"
    /\ last.out = last.pre.buffer
    /\ Len(last.pre.buffer) > 1
    /\ last.pre.cursor > 0
    /\ last.pre.line > 0
    /\ lines(last.pre) > 1

IsPrintableWrite == last.op = "write" /\ IsPrintable(last.byte)

\* C11: writing a printable character c with the cursor at position p, also
\* in the middle of the buffer after navigation, returns and yields
\* buffer[0..p] ++ c ++ buffer[p..] with the cursor at p + 1.
C11_PrintableInsert ==
    IsPrintableWrite =>
        /\ ~panicked
        /\ dev.buffer = InsertAt(last.pre.buffer, last.pre.cursor, last.byte)
        /\ dev.cursor = last.pre.cursor + 1

\* C12: in every state with a non-empty buffer, reached by calls that
\* returned, the line index accounts for the whole buffer: the sum of the
\* line lengths plus one separator between consecutive lines is the length
\* of the buffer.
C12_LineIndexCoversBuffer ==
    (~panicked /\ dev.buffer # <<>>) =>
        SumSeq(dev.line_info) + (Len(dev.line_info) - 1) = Len(dev.buffer)

C12_Witness ==
    /\ ~panicked
    /\ last.op \in NavOps
    /\ dev # last.pre
    /\ Len(dev.buffer) = MaxLen
    /\ Len(dev.line_info) > 1
    /\ \E i \in 1..Len(dev.line_info) : dev.line_info[i] > 0

\* C13: in every state whose line index is non-empty, reached by calls that
\* returned, the current line is an index into the line index, so
\* get_current_line returns a line.
C13_CurrentLineValid ==
    (~panicked /\ dev.line_info # <<>>) =>
        /\ 0 <= dev.line
        /\ dev.line < Len(dev.line_info)
        /\ get_current_line(dev) # <<>>

\* The offset at which line n starts: the lengths of the lines before it and
\* one separator for each of them.
LineStart(info, n) == SumSeq(TakeN(info, n)) + n

LineEnd(info, n) == SumSeq(TakeN(info, n + 1)) + n

\* The current line is a line of the line index.
CurrentLineValid(d) == d.line < Len(d.line_info)

C15_HorizontalNavigation ==
    /\ last.op = "cursor_left" =>
         /\ ~panicked
         /\ IF last.pre.cursor > 0
            THEN dev.cursor = last.pre.cursor - 1
            ELSE dev = last.pre
    /\ last.op = "cursor_right" =>
         /\ ~panicked
         /\ IF last.pre.cursor < Len(last.pre.buffer)
            THEN dev.cursor = last.pre.cursor + 1
            ELSE last.pre.cursor = Len(last.pre.buffer) => dev = last.pre

\* C16: a cursor_left that moves the cursor decrements the current line by
\* one exactly when the character moved over, the one before the old
\* cursor, is the line separator; a cursor_right that moves the cursor
\* increments it by one exactly when the character moved over, the one at
\* the old cursor, is the line separator; otherwise the current line is
\* unchanged.
C16_LineFollowsSeparator ==
    /\ (last.op = "cursor_left" /\ (panicked \/ dev.cursor # last.pre.cursor)) =>
         /\ ~panicked
         /\ dev.line = IF IsSeparatorAt(last.pre.buffer, last.pre.cursor - 1)
                       THEN last.pre.line - 1 ELSE last.pre.line
    /\ (last.op = "cursor_right" /\ (panicked \/ dev.cursor # last.pre.cursor)) =>
         /\ ~panicked
         /\ dev.line = IF IsSeparatorAt(last.pre.buffer, last.pre.cursor)
                       THEN last.pre.line + 1 ELSE last.pre.line
    /\ (last.op \in {"cursor_left", "cursor_right"} /\ dev.cursor = last.pre.cursor) =>
         dev.line = last.pre.line

IsEnterWrite == last.op = "write" /\ last.byte = CR

RemovesSeparator ==
    /\ IsBackspaceWrite
    /\ last.pre.cursor > 0
    /\ last.pre.cursor <= Len(last.pre.buffer)
    /\ last.pre.buffer[last.pre.cursor] = CR

\* C18: a Backspace write that removes a line separator returns with the
\* separator removed and the current line decremented by one, or still 0
\* when it was 0.
C18_BackspaceJoinsLines ==
    RemovesSeparator =>
        /\ ~panicked
        /\ dev.buffer = RemoveAt(last.pre.buffer, last.pre.cursor - 1)
        /\ dev.line = IF last.pre.line > 0 THEN last.pre.line - 1 ELSE 0

C18_Witness ==
    /\ RemovesSeparator
    /\ ~panicked
    /\ last.pre.line > 0
    /\ last.pre.line < lines(last.pre)
    /\ lines(dev) = lines(last.pre) - 1
    /\ dev.line = last.pre.line - 1

\* C38: cursor_left, cursor_right, cursor_up and cursor_down leave the
\* buffer and the line index (line_info) as they were, whether they return
\* or panic; only cursor and line change.
C38_NavigationKeepsText ==
    [][(last'.op \in NavOps) =>
          /\ dev'.buffer = dev.buffer
          /\ dev'.line_info = dev.line_info]_vars

C38_Witness ==
    /\ last.op \in NavOps /\ ~panicked
    /\ dev.cursor # last.pre.cursor
    /\ dev.line # last.pre.line
    /\ Len(dev.buffer) = MaxLen
    /\ dev.buffer = last.pre.buffer
    /\ dev.line_info = last.pre.line_info

=============================================================================
